---- MODULE Spec2Model ----
(***************************************************************************)
(* Model of the duplicate-merge protocol of mardiclient                    *)
(* (MardiDisambiguator.merge_authors / merge_publications in               *)
(* mardiclient/utils.py) together with the page primitives it calls and    *)
(* the entity write of mardiclient/mardi_entities.py.                      *)
(*                                                                         *)
(* Strings whose characters matter (QIDs, labels) are sequences of         *)
(* one-character strings; a description is a sequence of text fragments.   *)
(* The remote MediaWiki / Wikibase answers as the MediaWiki API does:      *)
(* action=parse, action=delete and action=move answer with an "error"      *)
(* member for a missing title, action=move also for an occupied target     *)
(* title, wbmergeitems for two different descriptions.  Besides, up to     *)
(* MaxFaults calls of a behaviour are answered with a transport error, a   *)
(* ModificationFailed or a reordered merge report.                         *)
(*                                                                         *)
(* Each coordinator is one call of merge_authors or merge_publications,    *)
(* stepping from remote call to remote call; world[c] is the Wikibase it   *)
(* talks to, so that two calls can be run side by side on two copies of    *)
(* the same store (SpecMirror), or on one and the same store (SpecShared). *)
(*                                                                         *)
(* The second half models MardiClient.get_local_id_by_label and            *)
(* MardiClient.get_claim (mardiclient/mardi_client.py) with the label      *)
(* search of MardiItem.get_QID / MardiProperty.get_PID: a coordinator is   *)
(* then one caller of the client (SpecResolver, SpecClaim), the store      *)
(* holds the labels and datatypes of the local entities and the importer's *)
(* mapping of Wikidata references, and Python values carry their type.     *)
(* MardiClient.search_entity_by_value (SpecSearch) runs on the same store  *)
(* against a SPARQL endpoint that answers with any short list of           *)
(* bindings; MardiItem.write as called from outside (SpecWrite) runs on a  *)
(* store that refuses a write repeating the English label and description  *)
(* of another item.                                                        *)
(***************************************************************************)
EXTENDS Integers, Sequences, FiniteSets, TLC

(* ------------------------------ bounds -------------------------------- *)

\* longest English label of an item in the store
MaxLabelLen == 2

\* most P1451 statements on one item
MaxClaims == 2

\* how many calls of one behaviour the remote side may fail or answer oddly
MaxFaults == 1

\* longest identifier, label or malformed string passed to the resolver,
\* not counting a wd: / wdt: prefix
MaxIdLen == 3

\* how often a caller resolves the same string in a row
MaxCalls == 2

\* most bindings in the answer to a SPARQL query
MaxBindings == 2

(* ----------------------------- universe ------------------------------- *)

Coordinators == {1, 2}

Worlds == {1, 2}

QIDs == {<<"Q", "1">>, <<"Q", "2">>}

LabelChars == {"a", ","}

CatalogValues == {"DE123", "DE456"}

zbmath_prop == "P1451"

SeqsUpTo(S, n) == UNION {[1..k -> S] : k \in 0..n}

\* labels.get_json() / descriptions.values: a dict keyed by language
NoLang == [l \in {} |-> <<>>]

Lang(v) == [l \in {"en"} |-> v]

\* claims.get_json(): a dict keyed by property number
NoClaims == [p \in {} |-> <<>>]

Statement(v) == [mainsnak |-> [datavalue |-> [value |-> v]]]

\* the content of a page is the Q-ID of the item it was written for
NoPage == <<>>

RedirectPage == <<"#REDIRECT">>

Ids == {SelectSeq(q, LAMBDA ch : ch # "Q") : q \in QIDs}

Titles == {<<profile, id>> : profile \in {"Person", "Publication"}, id \in Ids}

(* --------------------------- pure helpers ----------------------------- *)

\* str.replace(old, new) for a one-character old
RECURSIVE Replace(_, _, _)
Replace(s, old, new) ==
    IF s = <<>> THEN <<>>
    ELSE (IF Head(s) = old THEN new ELSE <<Head(s)>>) \o Replace(Tail(s), old, new)

\* "ch in s"
Contains(s, ch) == \E i \in 1..Len(s) : s[i] = ch

\* f"{profile}:{target}"
PageTitle(profile, target) == <<profile, target>>

\* f"scientific article; zbMATH DE number {zbmath_de_number}"
Description(zbmath_de_number) ==
    <<"scientific article; zbMATH DE number ", zbmath_de_number>>

\* dict.get(key) of a claims dict, [] standing for None
ClaimsGet(claims, prop) == IF prop \in DOMAIN claims THEN claims[prop] ELSE <<>>

\* the English label read at utils.py 210-217
EnglishLabel(item) ==
    LET dict == item.labels
    IN  IF "en" \in DOMAIN dict THEN dict["en"] ELSE <<>>

(* ------------------------------ state --------------------------------- *)

VARIABLES
    op,       \* op[c]: the operation coordinator c runs
    args,     \* args[c]: the (source_QID, target_QID) it was called with
    world,    \* world[c]: the store the coordinator talks to
    store,    \* store[w]: entities and wiki pages of a Wikibase instance
    initial,  \* initial[w]: store[w] when the coordinators were started
    pc,       \* pc[c]: position of coordinator c in its method
    frame,    \* frame[c]: local variables of the running method
    log,      \* log[c]: the remote calls coordinator c has issued, in order
    faults    \* number of remote calls failed or answered oddly so far

vars == <<op, args, world, store, initial, pc, frame, log, faults>>

NoItem ==
    [id |-> <<>>, labels |-> NoLang, descriptions |-> NoLang, claims |-> NoClaims,
     removed |-> {}]

EmptyFrame(a) ==
    [source_QID |-> a[1], target_QID |-> a[2],
     source_item |-> NoItem, target_item |-> NoItem,
     source_label |-> <<>>, target_label |-> <<>>,
     source_id |-> <<>>, target_id |-> <<>>,
     source_page_exists |-> FALSE, target_page_exists |-> FALSE,
     results |-> <<>>, ret |-> <<>>, exc |-> "none"]

(* ------------------------- the remote side ---------------------------- *)

\* item.get(entity_id=qid): a snapshot of the entity; "removed" holds the
\* description languages flagged by LanguageValue.remove()
Snapshot(S, qid) ==
    [id |-> qid, labels |-> S.labels[qid], descriptions |-> S.descriptions[qid],
     claims |-> S.claims[qid], removed |-> {}]

\* action=parse answers with "error" exactly for a missing page
PageExists(S, title) == S.pages[title] # NoPage

\* action=delete: error "missingtitle" for a missing page
DeleteAnswer(S, title) ==
    IF S.pages[title] = NoPage
    THEN [error |-> TRUE, store |-> S]
    ELSE [error |-> FALSE, store |-> [S EXCEPT !.pages[title] = NoPage]]

\* action=move: error for a missing source ("missingtitle"), an occupied
\* target ("articleexists") or a move onto itself; a redirect stays behind
MoveAnswer(S, from, to) ==
    IF S.pages[from] = NoPage \/ S.pages[to] # NoPage \/ from = to
    THEN [error |-> TRUE, store |-> S]
    ELSE [error |-> FALSE,
          store |-> [S EXCEPT !.pages[to] = S.pages[from],
                              !.pages[from] = RedirectPage]]

\* wbeditentity with the entity's JSON: the label and description carried by
\* the snapshot are stored, a description flagged "remove" is dropped
EditAnswer(S, item) ==
    [S EXCEPT !.labels[item.id] =
                  IF "en" \in DOMAIN item.labels THEN item.labels ELSE @,
              !.descriptions[item.id] =
                  IF "en" \in item.removed THEN NoLang
                  ELSE IF "en" \in DOMAIN item.descriptions THEN item.descriptions
                  ELSE @]

MergedLang(into, from) == IF "en" \in DOMAIN into THEN into ELSE from

MergedClaims(into, from) ==
    [p \in DOMAIN into \cup DOMAIN from |-> ClaimsGet(into, p) \o ClaimsGet(from, p)]

\* wbmergeitems without ignoreconflicts: refuses an item merged with itself,
\* a redirected item and two different descriptions; otherwise the target
\* takes over what it lacks and the source becomes a redirect to it
MergeAnswer(S, from, to) ==
    IF \/ from = to
       \/ S.redirects[from] # <<>>
       \/ S.redirects[to] # <<>>
       \/ /\ "en" \in DOMAIN S.descriptions[from]
          /\ "en" \in DOMAIN S.descriptions[to]
          /\ S.descriptions[from]["en"] # S.descriptions[to]["en"]
    THEN [error |-> TRUE, store |-> S]
    ELSE [error |-> FALSE,
          store |-> [S EXCEPT
              !.labels[to] = MergedLang(S.labels[to], S.labels[from]),
              !.descriptions[to] = MergedLang(S.descriptions[to], S.descriptions[from]),
              !.claims[to] = MergedClaims(S.claims[to], S.claims[from]),
              !.labels[from] = NoLang,
              !.descriptions[from] = NoLang,
              !.claims[from] = NoClaims,
              !.redirects[from] = to]]

\* the JSON merge_items returns
MergeReport(from, to) == [from |-> [id |-> from], to |-> [id |-> to]]

(* ------------------------- stepping helpers --------------------------- *)

Entry(call, a, outcome) == [call |-> call, args |-> a, outcome |-> outcome]

Goto(c, next, f) ==
    /\ pc' = [pc EXCEPT ![c] = next]
    /\ frame' = [frame EXCEPT ![c] = f]

Logged(c, entry) == log' = [log EXCEPT ![c] = Append(@, entry)]

\* an exception leaves the method: nothing catches it
Raise(c, e) == Goto(c, "failed", [frame[c] EXCEPT !.exc = e])

Fault ==
    /\ faults < MaxFaults
    /\ faults' = faults + 1

UpdateStore(c, S) == store' = [store EXCEPT ![world[c]] = S]

Frozen == UNCHANGED <<op, args, world, initial>>

(* ------------------ MardiItem.get / MardiItem.write ------------------- *)

Digits == {"0", "1", "2", "3", "4", "5", "6", "7", "8", "9"}

\* the end of the longest run of digits of s that starts at position i
RECURSIVE DigitsEnd(_, _)
DigitsEnd(s, i) ==
    IF i <= Len(s) /\ s[i] \in Digits THEN DigitsEnd(s, i + 1) ELSE i - 1

\* re.search(r"Q\d+", s): the leftmost match, <<>> for no match
RegexSearchQid(s) ==
    LET starts == {i \in 1..Len(s) : s[i] = "Q" /\ DigitsEnd(s, i + 1) > i}
    IN  IF starts = {} THEN <<>>
        ELSE LET i == CHOOSE k \in starts : \A m \in starts : k <= m
             IN  SubSeq(s, i, DigitsEnd(s, i + 1))

LabelDescriptionConflict == "wikibase-validator-label-with-description-conflict"

\* a ModificationFailed as the Wikibase API produces it
ModificationFailed(names, entity_link) ==
    [messages_names |-> names,
     messages |-> <<[parameters |-> <<"label", "en", entity_link>>]>>]

\* the ModificationFailed errors a write can meet
ModificationFailures ==
    {ModificationFailed(names, link) :
        names \in {{LabelDescriptionConflict}, {"failed-save"}},
        link \in {<<"[", "Q", "2", "]">>, <<"[", "]">>}}

\* a handler that takes every ModificationFailed for the label and
\* description conflict
handle_modification_failed_any_cause(e) ==
    LET entity_link == e.messages[1].parameters[3]
    IN  RegexSearchQid(entity_link)

\* MardiItem._handle_modification_failed: the Q-ID of the existing item,
\* <<>> standing for None
handle_modification_failed(e) ==
    IF LabelDescriptionConflict \notin e.messages_names THEN <<>>
    ELSE LET entity_link == e.messages[1].parameters[3]
         IN  RegexSearchQid(entity_link)

\* frame variable "var" = self.item.get(entity_id=qid), f being the frame so far
item_get(c, qid, next, f, var) ==
    LET S == store[world[c]]
    IN  \/ /\ S.redirects[qid] = <<>>
           /\ Goto(c, next, [f EXCEPT ![var] = Snapshot(S, qid)])
           /\ Logged(c, Entry("get", <<qid>>, "ok"))
           /\ UNCHANGED <<store, faults>>
        \/ /\ S.redirects[qid] # <<>>
           /\ Raise(c, "KeyError")
           /\ Logged(c, Entry("get", <<qid>>, "error"))
           /\ UNCHANGED <<store, faults>>
        \/ /\ Fault
           /\ Raise(c, "ConnectionError")
           /\ Logged(c, Entry("get", <<qid>>, "fault"))
           /\ UNCHANGED store

\* item.write(): MardiItem.write around the inherited write
item_write(c, item, next) ==
    \/ /\ UpdateStore(c, EditAnswer(store[world[c]], item))
       /\ Goto(c, next, frame[c])
       /\ Logged(c, Entry("write", <<item.id>>, "ok"))
       /\ UNCHANGED faults
    \/ /\ Fault
       /\ \E e \in ModificationFailures :
            IF handle_modification_failed(e) # <<>>
            THEN /\ Goto(c, next, frame[c])
                 /\ Logged(c, Entry("write", <<item.id>>, "conflict"))
            ELSE /\ Raise(c, "ModificationFailed")
                 /\ Logged(c, Entry("write", <<item.id>>, "fault"))
       /\ UNCHANGED store
    \/ /\ Fault
       /\ Raise(c, "ConnectionError")
       /\ Logged(c, Entry("write", <<item.id>>, "fault"))
       /\ UNCHANGED store

(* -------------------------- page primitives --------------------------- *)

\* frame variable "var" = self.get_page(target, profile)
get_page(c, target, profile, next, var) ==
    LET title == PageTitle(profile, target)
    IN  \/ /\ Goto(c, next, [frame[c] EXCEPT ![var] = PageExists(store[world[c]], title)])
           /\ Logged(c, Entry("get_page", <<title>>, "ok"))
           /\ UNCHANGED <<store, faults>>
        \/ /\ Fault
           /\ Raise(c, "ConnectionError")
           /\ Logged(c, Entry("get_page", <<title>>, "fault"))
           /\ UNCHANGED store

\* delete_page that lets an "error" answer pass
delete_page_ignoring_error(c, target, profile, next) ==
    LET title == PageTitle(profile, target)
        answer == DeleteAnswer(store[world[c]], title)
    IN  \/ /\ UpdateStore(c, answer.store)
           /\ Goto(c, next, frame[c])
           /\ Logged(c, Entry("delete_page", <<title>>, IF answer.error THEN "error" ELSE "ok"))
           /\ UNCHANGED faults
        \/ /\ Fault
           /\ Raise(c, "HTTPError")
           /\ Logged(c, Entry("delete_page", <<title>>, "fault"))
           /\ UNCHANGED store

\* delete_page(target, profile)
delete_page(c, target, profile, next) ==
    LET title == PageTitle(profile, target)
        answer == DeleteAnswer(store[world[c]], title)
    IN  \/ /\ ~answer.error
           /\ UpdateStore(c, answer.store)
           /\ Goto(c, next, frame[c])
           /\ Logged(c, Entry("delete_page", <<title>>, "ok"))
           /\ UNCHANGED faults
        \/ /\ answer.error
           /\ Raise(c, "WBAPIException")
           /\ Logged(c, Entry("delete_page", <<title>>, "error"))
           /\ UNCHANGED <<store, faults>>
        \/ /\ Fault
           /\ Raise(c, "HTTPError")
           /\ Logged(c, Entry("delete_page", <<title>>, "fault"))
           /\ UNCHANGED store

\* move_page(source, target, profile)
move_page(c, source, target, profile, next) ==
    LET to == PageTitle(profile, target)
        from == PageTitle(profile, source)
        answer == MoveAnswer(store[world[c]], from, to)
    IN  \/ /\ ~answer.error
           /\ UpdateStore(c, answer.store)
           /\ Goto(c, next, frame[c])
           /\ Logged(c, Entry("move_page", <<from, to>>, "ok"))
           /\ UNCHANGED faults
        \/ /\ answer.error
           /\ Raise(c, "WBAPIException")
           /\ Logged(c, Entry("move_page", <<from, to>>, "error"))
           /\ UNCHANGED <<store, faults>>
        \/ /\ Fault
           /\ Raise(c, "HTTPError")
           /\ Logged(c, Entry("move_page", <<from, to>>, "fault"))
           /\ UNCHANGED store

(* -------------------------- merge primitive --------------------------- *)

\* a return of the pair passed instead of the pair reported
merge_items_and_return_passed(c) ==
    LET from == frame[c].source_QID
        to == frame[c].target_QID
        answer == MergeAnswer(store[world[c]], from, to)
        swapped == MergeAnswer(store[world[c]], to, from)
        Return(results) ==
            Goto(c, "done", [frame[c] EXCEPT !.results = results, !.ret = <<from, to>>])
    IN  \/ /\ ~answer.error
           /\ UpdateStore(c, answer.store)
           /\ Return(MergeReport(from, to))
           /\ Logged(c, Entry("merge_items", <<from, to>>, "ok"))
           /\ UNCHANGED faults
        \/ /\ answer.error
           /\ Raise(c, "MWApiError")
           /\ Logged(c, Entry("merge_items", <<from, to>>, "error"))
           /\ UNCHANGED <<store, faults>>
        \/ /\ Fault
           /\ Raise(c, "MWApiError")
           /\ Logged(c, Entry("merge_items", <<from, to>>, "fault"))
           /\ UNCHANGED store
        \/ /\ Fault
           /\ ~swapped.error
           /\ UpdateStore(c, swapped.store)
           /\ Return(MergeReport(to, from))
           /\ Logged(c, Entry("merge_items", <<from, to>>, "reordered"))

\* results = merge_items(source_QID, target_QID, ...);
\* return results["from"]["id"], results["to"]["id"]
merge_items_and_return(c) ==
    LET from == frame[c].source_QID
        to == frame[c].target_QID
        answer == MergeAnswer(store[world[c]], from, to)
        swapped == MergeAnswer(store[world[c]], to, from)
        Return(results) ==
            Goto(c, "done", [frame[c] EXCEPT !.results = results,
                                              !.ret = <<results.from.id, results.to.id>>])
    IN  \/ /\ ~answer.error
           /\ UpdateStore(c, answer.store)
           /\ Return(MergeReport(from, to))
           /\ Logged(c, Entry("merge_items", <<from, to>>, "ok"))
           /\ UNCHANGED faults
        \/ /\ answer.error
           /\ Raise(c, "MWApiError")
           /\ Logged(c, Entry("merge_items", <<from, to>>, "error"))
           /\ UNCHANGED <<store, faults>>
        \/ /\ Fault
           /\ Raise(c, "MWApiError")
           /\ Logged(c, Entry("merge_items", <<from, to>>, "fault"))
           /\ UNCHANGED store
        \/ \* the primitive merges the other way round and says so
           /\ Fault
           /\ ~swapped.error
           /\ UpdateStore(c, swapped.store)
           /\ Return(MergeReport(to, from))
           /\ Logged(c, Entry("merge_items", <<from, to>>, "reordered"))

(* --------------------------- merge_authors ---------------------------- *)

\* source_label, target_label = "", "" and the two "en" lookups
ReadLabels(f) ==
    [f EXCEPT !.source_label = EnglishLabel(f.source_item),
              !.target_label = EnglishLabel(f.target_item)]

\* source_QID, target_QID = target_QID, source_QID
SwapQIDs(f) ==
    [f EXCEPT !.source_QID = f.target_QID, !.target_QID = f.source_QID]

\* ... and source_label, target_label = target_label, source_label
SwapRoles(f) ==
    [SwapQIDs(f) EXCEPT !.source_label = f.target_label,
                        !.target_label = f.source_label]

\* a swap that spares an empty target label
ShorterLabelRule_sparing_empty(f) ==
    IF Len(f.target_label) < Len(f.source_label) /\ f.target_label # <<>>
    THEN SwapRoles(f)
    ELSE f

\* "Swap if target has shorter label"
ShorterLabelRule(f) ==
    IF Len(f.target_label) < Len(f.source_label) THEN SwapRoles(f) ELSE f

\* "Prefer comma-separated format (Last, First)"
CommaFormatRule(f) ==
    IF /\ Contains(f.target_label, ",")
       /\ f.source_label # <<>>
       /\ ~Contains(f.source_label, ",")
    THEN SwapRoles(f)
    ELSE f

\* source_author_id / target_author_id, source_publication_id / ...
PageIds(f) ==
    [f EXCEPT !.source_id = Replace(f.source_QID, "Q", <<>>),
              !.target_id = Replace(f.target_QID, "Q", <<>>)]

\* a fallback that keeps the caller's order when only the source has a page
PageFallback_never_swaps(f) ==
    IF f.source_page_exists /\ f.target_page_exists
    THEN [next |-> "delete_247", frame |-> f]
    ELSE [next |-> "merge_251", frame |-> f]

\* the branch taken once both page checks have answered
PageFallback(f) ==
    IF f.source_page_exists /\ ~f.target_page_exists
    THEN [next |-> "merge_251", frame |-> SwapQIDs(f)]
    ELSE IF f.source_page_exists /\ f.target_page_exists
    THEN [next |-> "delete_247", frame |-> f]
    ELSE [next |-> "merge_251", frame |-> f]

merge_authors_get_source(c) ==
    /\ op[c] = "merge_authors" /\ pc[c] = "get_207"
    /\ item_get(c, frame[c].source_QID, "get_208", frame[c], "source_item")
    /\ Frozen

merge_authors_get_target(c) ==
    /\ op[c] = "merge_authors" /\ pc[c] = "get_208"
    /\ item_get(c, frame[c].target_QID, "order_210", frame[c], "target_item")
    /\ Frozen

merge_authors_order(c) ==
    /\ op[c] = "merge_authors" /\ pc[c] = "order_210"
    /\ LET f == PageIds(CommaFormatRule(ShorterLabelRule(ReadLabels(frame[c]))))
       IN  Goto(c, IF f.source_label # <<>> THEN "delete_235"
                   ELSE IF f.target_label = <<>> THEN "get_page_241"
                   ELSE "merge_251", f)
    /\ UNCHANGED <<store, log, faults>>
    /\ Frozen

\* a delete that waits while another coordinator is between its delete and
\* its merge on the same target page
merge_authors_delete_target_locked(c) ==
    /\ op[c] = "merge_authors" /\ pc[c] = "delete_235"
    /\ \A d \in Coordinators \ {c} :
          ~(/\ world[d] = world[c]
            /\ pc[d] \in {"move_238", "merge_251"}
            /\ frame[d].target_id = frame[c].target_id)
    /\ delete_page(c, frame[c].target_id, "Person", "move_238")
    /\ Frozen

merge_authors_delete_target(c) ==
    /\ op[c] = "merge_authors" /\ pc[c] = "delete_235"
    /\ delete_page(c, frame[c].target_id, "Person", "move_238")
    /\ Frozen

\* a move of the target's page onto the source's
merge_authors_move_source_reversed(c) ==
    /\ op[c] = "merge_authors" /\ pc[c] = "move_238"
    /\ move_page(c, frame[c].target_id, frame[c].source_id, "Person", "merge_251")
    /\ Frozen

merge_authors_move_source(c) ==
    /\ op[c] = "merge_authors" /\ pc[c] = "move_238"
    /\ move_page(c, frame[c].source_id, frame[c].target_id, "Person", "merge_251")
    /\ Frozen

merge_authors_source_page(c) ==
    /\ op[c] = "merge_authors" /\ pc[c] = "get_page_241"
    /\ get_page(c, frame[c].source_id, "Person", "get_page_242", "source_page_exists")
    /\ Frozen

merge_authors_target_page(c) ==
    /\ op[c] = "merge_authors" /\ pc[c] = "get_page_242"
    /\ get_page(c, frame[c].target_id, "Person", "fallback_244", "target_page_exists")
    /\ Frozen

merge_authors_fallback(c) ==
    /\ op[c] = "merge_authors" /\ pc[c] = "fallback_244"
    /\ Goto(c, PageFallback(frame[c]).next, PageFallback(frame[c]).frame)
    /\ UNCHANGED <<store, log, faults>>
    /\ Frozen

merge_authors_fallback_delete(c) ==
    /\ op[c] = "merge_authors" /\ pc[c] = "delete_247"
    /\ delete_page(c, frame[c].target_id, "Person", "move_248")
    /\ Frozen

merge_authors_fallback_move(c) ==
    /\ op[c] = "merge_authors" /\ pc[c] = "move_248"
    /\ move_page(c, frame[c].source_id, frame[c].target_id, "Person", "merge_251")
    /\ Frozen

merge_authors_merge(c) ==
    /\ op[c] = "merge_authors" /\ pc[c] = "merge_251"
    /\ merge_items_and_return(c)
    /\ Frozen

(* ------------------------- merge_publications ------------------------- *)

\* the last statement's value instead of the first
LastCatalogValue(claims) ==
    ClaimsGet(claims, zbmath_prop)[Len(ClaimsGet(claims, zbmath_prop))].mainsnak.datavalue.value

\* claims.get(zbmath_prop)[0]["mainsnak"]["datavalue"]["value"]
FirstCatalogValue(claims) == ClaimsGet(claims, zbmath_prop)[1].mainsnak.datavalue.value

\* item.descriptions.set(language="en", value=description)
DescriptionsSet(item, value) ==
    [item EXCEPT !.descriptions = Lang(value), !.removed = @ \ {"en"}]

\* item.descriptions.values["en"].remove(), defined when "en" is a key
DescriptionsRemove(item) == [item EXCEPT !.removed = @ \cup {"en"}]

\* a harmonisation that does nothing when both items carry P1451
Harmonise_skipping_both(f) ==
    IF /\ ClaimsGet(f.source_item.claims, zbmath_prop) # <<>>
       /\ ClaimsGet(f.target_item.claims, zbmath_prop) # <<>>
    THEN [next |-> "delete_293", frame |-> f]
    ELSE IF ClaimsGet(f.source_item.claims, zbmath_prop) # <<>>
    THEN [next |-> "write_279",
          frame |-> [f EXCEPT !.source_item =
              DescriptionsSet(@, Description(FirstCatalogValue(f.source_item.claims)))]]
    ELSE IF ClaimsGet(f.target_item.claims, zbmath_prop) # <<>>
    THEN [next |-> "write_287",
          frame |-> [f EXCEPT !.target_item =
              DescriptionsSet(@, Description(FirstCatalogValue(f.target_item.claims)))]]
    ELSE [next |-> "delete_293", frame |-> f]

\* the if / elif at "Harmonize description before merging"
Harmonise(f) ==
    IF ClaimsGet(f.source_item.claims, zbmath_prop) # <<>>
    THEN [next |-> "write_279",
          frame |-> [f EXCEPT !.source_item =
              DescriptionsSet(@, Description(FirstCatalogValue(f.source_item.claims)))]]
    ELSE IF ClaimsGet(f.target_item.claims, zbmath_prop) # <<>>
    THEN [next |-> "write_287",
          frame |-> [f EXCEPT !.target_item =
              DescriptionsSet(@, Description(FirstCatalogValue(f.target_item.claims)))]]
    ELSE [next |-> "delete_293", frame |-> f]

merge_publications_get_source(c) ==
    /\ op[c] = "merge_publications" /\ pc[c] = "get_268"
    /\ item_get(c, frame[c].source_QID, "get_271", PageIds(frame[c]), "source_item")
    /\ Frozen

merge_publications_get_target(c) ==
    /\ op[c] = "merge_publications" /\ pc[c] = "get_271"
    /\ item_get(c, frame[c].target_QID, "harmonise_275", frame[c], "target_item")
    /\ Frozen

merge_publications_harmonise(c) ==
    /\ op[c] = "merge_publications" /\ pc[c] = "harmonise_275"
    /\ Goto(c, Harmonise(frame[c]).next, Harmonise(frame[c]).frame)
    /\ UNCHANGED <<store, log, faults>>
    /\ Frozen

merge_publications_write_source(c) ==
    /\ op[c] = "merge_publications" /\ pc[c] = "write_279"
    /\ item_write(c, frame[c].source_item, "remove_281")
    /\ Frozen

\* a clearing that leaves a target without English description alone
merge_publications_clear_target_tolerant(c) ==
    /\ op[c] = "merge_publications" /\ pc[c] = "remove_281"
    /\ IF "en" \in DOMAIN frame[c].target_item.descriptions
       THEN Goto(c, "write_282",
                 [frame[c] EXCEPT !.target_item = DescriptionsRemove(@)])
       ELSE Goto(c, "write_282", frame[c])
    /\ UNCHANGED <<store, log, faults>>
    /\ Frozen

merge_publications_clear_target(c) ==
    /\ op[c] = "merge_publications" /\ pc[c] = "remove_281"
    /\ IF "en" \in DOMAIN frame[c].target_item.descriptions
       THEN Goto(c, "write_282",
                 [frame[c] EXCEPT !.target_item = DescriptionsRemove(@)])
       ELSE Raise(c, "KeyError")
    /\ UNCHANGED <<store, log, faults>>
    /\ Frozen

merge_publications_write_cleared_target(c) ==
    /\ op[c] = "merge_publications" /\ pc[c] = "write_282"
    /\ item_write(c, frame[c].target_item, "delete_293")
    /\ Frozen

merge_publications_write_target(c) ==
    /\ op[c] = "merge_publications" /\ pc[c] = "write_287"
    /\ item_write(c, frame[c].target_item, "remove_289")
    /\ Frozen

merge_publications_clear_source(c) ==
    /\ op[c] = "merge_publications" /\ pc[c] = "remove_289"
    /\ IF "en" \in DOMAIN frame[c].source_item.descriptions
       THEN Goto(c, "write_290",
                 [frame[c] EXCEPT !.source_item = DescriptionsRemove(@)])
       ELSE Raise(c, "KeyError")
    /\ UNCHANGED <<store, log, faults>>
    /\ Frozen

merge_publications_write_cleared_source(c) ==
    /\ op[c] = "merge_publications" /\ pc[c] = "write_290"
    /\ item_write(c, frame[c].source_item, "delete_293")
    /\ Frozen

merge_publications_delete_target(c) ==
    /\ op[c] = "merge_publications" /\ pc[c] = "delete_293"
    /\ delete_page(c, frame[c].target_id, "Publication", "move_296")
    /\ Frozen

merge_publications_move_source(c) ==
    /\ op[c] = "merge_publications" /\ pc[c] = "move_296"
    /\ move_page(c, frame[c].source_id, frame[c].target_id, "Publication", "merge_298")
    /\ Frozen

merge_publications_merge(c) ==
    /\ op[c] = "merge_publications" /\ pc[c] = "merge_298"
    /\ merge_items_and_return(c)
    /\ Frozen

(* --------------------- MardiClient: Python values --------------------- *)

\* A Python value is tagged with its type; a string is a sequence of
\* fragments, the characters the patterns look at being fragments of their
\* own; a list holds strings.
Str(s) == [type |-> "str", v |-> s]

List(l) == [type |-> "list", v |-> l]

None == [type |-> "NoneType", v |-> <<>>]

\* truth value of "x" in "if not x"
Truthy(x) == x.type # "NoneType" /\ x.v # <<>>

\* str(x) of a string or None
StrOf(x) == IF x.type = "NoneType" THEN Str(<<"N", "o", "n", "e">>) ELSE x

\* "x or []"
OrEmptyList(x) == IF Truthy(x) THEN x ELSE List(<<>>)

\* dict.get(key), None for a missing key
DictGet(dict, key) == IF key \in DOMAIN dict THEN dict[key] ELSE None

NoDict == [k \in {} |-> None]

\* s.startswith(prefix)
StartsWith(s, prefix) ==
    Len(s) >= Len(prefix) /\ SubSeq(s, 1, Len(prefix)) = prefix

Newline == "\n"

\* re.match(r"^[PQ]\d+$", s) from position "from" of s: the matched
\* identifier, <<>> for no match; "$" also matches before a final newline
MatchId(s, from) ==
    LET last == DigitsEnd(s, from + 1)
    IN  IF /\ from <= Len(s)
           /\ s[from] \in {"P", "Q"}
           /\ last > from
           /\ \/ last = Len(s)
              \/ last = Len(s) - 1 /\ s[Len(s)] = Newline
        THEN SubSeq(s, from, last)
        ELSE <<>>

\* local_pattern = r"^[PQ]\d+$"
local_pattern(s) == MatchId(s, 1) # <<>>

wd == <<"w", "d", ":">>

wdt == <<"w", "d", "t", ":">>

\* wikidata_pattern = r"^wdt?:([PQ]\d+$)": group 1, <<>> for no match
wikidata_pattern(s) ==
    IF StartsWith(s, wdt) THEN MatchId(s, Len(wdt) + 1)
    ELSE IF StartsWith(s, wd) THEN MatchId(s, Len(wd) + 1)
    ELSE <<>>

(* -------------------- MardiClient: importer service ------------------- *)

\* the local entities of a store, in the order the search service lists them
LocalIds == <<<<"P", "1">>, <<"P", "2">>, <<"Q", "1">>, <<"Q", "2">>>>

\* entities of one kind ("P" or "Q") whose English label is "label"
SearchHits(S, letter, label) ==
    SelectSeq(LocalIds, LAMBDA id : /\ id \in DOMAIN S.label
                                    /\ id[1] = letter
                                    /\ S.label[id] = label)

\* GET {importer_api}/search/{items|properties}/{label}: the JSON bodies the
\* service may answer with; without a hit the key may be empty, null or absent
SearchResponses(S, endpoint, label) ==
    LET key == IF endpoint = "items" THEN "QID" ELSE "PID"
        hits == SearchHits(S, IF endpoint = "items" THEN "Q" ELSE "P", label)
    IN  IF hits # <<>> THEN {[k \in {key} |-> List(hits)]}
        ELSE {[k \in {key} |-> List(<<>>)], [k \in {key} |-> None], NoDict}

\* GET {importer_api}/{items|properties}/{entity_str}/mapping: {"local_id": ...}
MappingResponses(S, entity_str) ==
    IF entity_str \in DOMAIN S.mapping
    THEN {[k \in {"local_id"} |-> Str(S.mapping[entity_str])]}
    ELSE {[k \in {"local_id"} |-> None], NoDict}

\* requests.RequestException and the subclasses requests.get and
\* raise_for_status raise
RequestException == {"RequestException", "ConnectionError", "Timeout", "HTTPError"}

\* a log entry that also keeps the JSON body of the answer
Answered(call, a, outcome, response) ==
    [call |-> call, args |-> a, outcome |-> outcome, response |-> response]

\* frame variable "var" = x, and on to "next"
Assign(c, next, var, x) == Goto(c, next, [frame[c] EXCEPT ![var] = x])

(* --------------- MardiItem.get_QID / MardiProperty.get_PID ------------ *)

\* get_QID() / get_PID() of an unsaved entity carrying the English label
\* "label": the importer is asked for the entities that carry the label;
\* a failure of the request is not caught
search_label(c, endpoint, label, next, var) ==
    LET key == IF endpoint = "items" THEN "QID" ELSE "PID"
    IN  \/ /\ label = <<>>
           /\ Assign(c, next, var, List(<<>>))
           /\ UNCHANGED <<store, log, faults>>
        \/ /\ label # <<>>
           /\ \E response \in SearchResponses(store[world[c]], endpoint, label) :
                /\ Assign(c, next, var, OrEmptyList(DictGet(response, key)))
                /\ Logged(c, Answered("search", <<endpoint, label>>, "ok", response))
           /\ UNCHANGED <<store, faults>>
        \/ /\ label # <<>>
           /\ Fault
           /\ \E e \in {"ConnectionError", "Timeout", "HTTPError"} :
                /\ Raise(c, e)
                /\ Logged(c, Answered("search", <<endpoint, label>>, e, NoDict))
           /\ UNCHANGED store

\* a get_QID that asks the properties endpoint
get_QID_asking_properties(c, label, next, var) ==
    search_label(c, "properties", label, next, var)

\* MardiItem.get_QID
get_QID(c, label, next, var) == search_label(c, "items", label, next, var)

\* MardiProperty.get_PID
get_PID(c, label, next, var) == search_label(c, "properties", label, next, var)

(* ---------------- MardiClient.get_local_id_by_label ------------------- *)

\* the except clause of the mapping request catching ConnectionError only
mapping_request_catching_connection_only(c, entity_str, next, var) ==
    LET wikidata_id == wikidata_pattern(entity_str)
        endpoint == IF wikidata_id[1] = "Q" THEN "items" ELSE "properties"
    IN  \/ /\ \E response \in MappingResponses(store[world[c]], entity_str) :
                /\ Assign(c, next, var, StrOf(DictGet(response, "local_id")))
                /\ Logged(c, Answered("mapping", <<endpoint, entity_str>>, "ok", response))
           /\ UNCHANGED <<store, faults>>
        \/ /\ Fault
           /\ \E e \in RequestException \ {"RequestException"} :
                /\ IF e = "ConnectionError"
                   THEN Assign(c, next, var, None)
                   ELSE Raise(c, e)
                /\ Logged(c, Answered("mapping", <<endpoint, entity_str>>, e, NoDict))
           /\ UNCHANGED store

\* the try / except around requests.get(.../mapping) for a matched reference
mapping_request(c, entity_str, next, var) ==
    LET wikidata_id == wikidata_pattern(entity_str)
        endpoint == IF wikidata_id[1] = "Q" THEN "items" ELSE "properties"
    IN  \/ /\ \E response \in MappingResponses(store[world[c]], entity_str) :
                /\ Assign(c, next, var, StrOf(DictGet(response, "local_id")))
                /\ Logged(c, Answered("mapping", <<endpoint, entity_str>>, "ok", response))
           /\ UNCHANGED <<store, faults>>
        \/ /\ Fault
           /\ \E e \in RequestException \ {"RequestException"} :
                /\ IF e \in RequestException
                   THEN Assign(c, next, var, None)
                   ELSE Raise(c, e)
                /\ Logged(c, Answered("mapping", <<endpoint, entity_str>>, e, NoDict))
           /\ UNCHANGED store

\* a local pattern that knows items only
is_local_id_items_only(entity_str) == local_pattern(entity_str) /\ entity_str[1] = "Q"

\* re.match(local_pattern, entity_str)
is_local_id(entity_str) == local_pattern(entity_str)

\* frame variable "var" = self.get_local_id_by_label(entity_str, entity_type)
get_local_id_by_label(c, entity_str, entity_type, next, var) ==
    IF is_local_id(entity_str)
    THEN /\ Assign(c, next, var, Str(entity_str))
         /\ UNCHANGED <<store, log, faults>>
    ELSE IF ~(StartsWith(entity_str, wdt) \/ StartsWith(entity_str, wd))
            /\ entity_type = "property"
    THEN get_PID(c, entity_str, next, var)
    ELSE IF ~(StartsWith(entity_str, wdt) \/ StartsWith(entity_str, wd))
            /\ entity_type = "item"
    THEN get_QID(c, entity_str, next, var)
    ELSE IF wikidata_pattern(entity_str) # <<>>
    THEN mapping_request(c, entity_str, next, var)
    ELSE /\ Assign(c, next, var, None)
         /\ UNCHANGED <<store, log, faults>>

(* ------------------- calls of get_local_id_by_label ------------------- *)

\* the local variables of a client call; "returned" keeps what the earlier
\* calls of the same caller returned
ClientFrame ==
    [prop_nr |-> None, resolved_prop |-> None, datatype |-> "", kwargs |-> NoDict,
     item_id |-> None, ret |-> None, exc |-> "none", message |-> <<>>,
     returned |-> <<>>]

\* the caller's call get_local_id_by_label(entity_str, entity_type)
resolve_call(c) ==
    /\ op[c] = "get_local_id_by_label" /\ pc[c] = "call_123"
    /\ get_local_id_by_label(c, args[c][1], args[c][2], "done", "ret")
    /\ Frozen

\* the caller repeats the call with the same arguments
resolve_again(c) ==
    /\ op[c] = "get_local_id_by_label" /\ pc[c] = "done"
    /\ Len(frame[c].returned) < MaxCalls - 1
    /\ Goto(c, "call_123", [frame[c] EXCEPT !.returned = Append(@, frame[c].ret),
                                              !.ret = None])
    /\ UNCHANGED <<store, log, faults>>
    /\ Frozen

(* ----------------------- MardiClient.get_claim ------------------------ *)

\* a claim object: the datatype class that was called and its keyword
\* arguments
Claim(constructor, kwargs) ==
    [type |-> "claim", constructor |-> constructor, kwargs |-> kwargs]

\* kwargs[key] = x
DictSet(dict, key, x) ==
    [k \in DOMAIN dict \cup {key} |-> IF k = key THEN x ELSE dict[k]]

\* a pop that was forgotten
DictPop_forgotten(dict, key) == dict

\* kwargs.pop(key)
DictPop(dict, key) == [k \in DOMAIN dict \ {key} |-> dict[k]]

\* the profile labels of mardi_client.py 232-239
ProfileLabels ==
    {<<"MaRDI person profile">>, <<"MaRDI publication profile">>,
     <<"MaRDI software profile">>, <<"MaRDI formula profile">>,
     <<"MaRDI dataset profile">>, <<"MaRDI community profile">>}

\* the datatypes the elif chain knows
Datatypes ==
    {"wikibase-item", "commonsMedia", "external-id", "wikibase-form", "geo-shape",
     "globe-coordinate", "wikibase-lexeme", "math", "monolingualtext",
     "musical-notation", "wikibase-property", "quantity", "wikibase-sense",
     "string", "tabular-data", "time", "url", "mathml"}

\* an elif chain whose last branch falls back to MathML
Construct_falling_back(datatype, kwargs, value) ==
    IF datatype = "wikibase-item" THEN Claim("Item", kwargs)
    ELSE IF datatype = "commonsMedia" THEN Claim("CommonsMedia", kwargs)
    ELSE IF datatype = "external-id" THEN Claim("ExternalID", kwargs)
    ELSE IF datatype = "wikibase-form" THEN Claim("Form", kwargs)
    ELSE IF datatype = "geo-shape" THEN Claim("GeoShape", kwargs)
    ELSE IF datatype = "globe-coordinate" THEN Claim("GlobeCoordinate", kwargs)
    ELSE IF datatype = "wikibase-lexeme" THEN Claim("Lexeme", kwargs)
    ELSE IF datatype = "math" THEN Claim("Math", kwargs)
    ELSE IF datatype = "monolingualtext"
    THEN Claim("MonolingualText", DictPop(DictSet(kwargs, "text", value), "value"))
    ELSE IF datatype = "musical-notation" THEN Claim("MusicalNotation", kwargs)
    ELSE IF datatype = "wikibase-property" THEN Claim("Property", kwargs)
    ELSE IF datatype = "quantity"
    THEN Claim("Quantity", DictPop(DictSet(kwargs, "amount", value), "value"))
    ELSE IF datatype = "wikibase-sense" THEN Claim("Sense", kwargs)
    ELSE IF datatype = "string" THEN Claim("String", kwargs)
    ELSE IF datatype = "tabular-data" THEN Claim("TabularData", kwargs)
    ELSE IF datatype = "time"
    THEN Claim("Time", DictPop(DictSet(kwargs, "time", value), "value"))
    ELSE IF datatype = "url" THEN Claim("URL", kwargs)
    ELSE Claim("MathML", kwargs)

\* the elif chain of mardi_client.py 229-290 once kwargs["value"] is final:
\* the claim returned, None standing for the ValueError of the last branch
Construct(datatype, kwargs, value) ==
    IF datatype = "wikibase-item" THEN Claim("Item", kwargs)
    ELSE IF datatype = "commonsMedia" THEN Claim("CommonsMedia", kwargs)
    ELSE IF datatype = "external-id" THEN Claim("ExternalID", kwargs)
    ELSE IF datatype = "wikibase-form" THEN Claim("Form", kwargs)
    ELSE IF datatype = "geo-shape" THEN Claim("GeoShape", kwargs)
    ELSE IF datatype = "globe-coordinate" THEN Claim("GlobeCoordinate", kwargs)
    ELSE IF datatype = "wikibase-lexeme" THEN Claim("Lexeme", kwargs)
    ELSE IF datatype = "math" THEN Claim("Math", kwargs)
    ELSE IF datatype = "monolingualtext"
    THEN Claim("MonolingualText", DictPop(DictSet(kwargs, "text", value), "value"))
    ELSE IF datatype = "musical-notation" THEN Claim("MusicalNotation", kwargs)
    ELSE IF datatype = "wikibase-property" THEN Claim("Property", kwargs)
    ELSE IF datatype = "quantity"
    THEN Claim("Quantity", DictPop(DictSet(kwargs, "amount", value), "value"))
    ELSE IF datatype = "wikibase-sense" THEN Claim("Sense", kwargs)
    ELSE IF datatype = "string" THEN Claim("String", kwargs)
    ELSE IF datatype = "tabular-data" THEN Claim("TabularData", kwargs)
    ELSE IF datatype = "time"
    THEN Claim("Time", DictPop(DictSet(kwargs, "time", value), "value"))
    ELSE IF datatype = "url" THEN Claim("URL", kwargs)
    ELSE IF datatype = "mathml" THEN Claim("MathML", kwargs)
    ELSE None

\* f"Unsupported datatype: {datatype}"
UnsupportedDatatype(datatype) == <<"Unsupported datatype: ", datatype>>

\* return x
Return(c, x) == Goto(c, "done", [frame[c] EXCEPT !.ret = x])

\* raise ValueError(message)
RaiseValueError(c, message) ==
    Goto(c, "failed", [frame[c] EXCEPT !.exc = "ValueError", !.message = message])

\* an except clause that takes every failure of the fetch for a MathML property
property_datatype_catching_all(c, next) ==
    LET S == store[world[c]]
        prop_nr == frame[c].prop_nr.v
        Datatype(d) == Goto(c, next, [frame[c] EXCEPT !.datatype = d])
    IN  \/ /\ prop_nr \in DOMAIN S.datatype
           /\ Datatype(S.datatype[prop_nr])
           /\ Logged(c, Answered("property.get", <<prop_nr>>, "ok", NoDict))
           /\ UNCHANGED <<store, faults>>
        \/ /\ prop_nr \notin DOMAIN S.datatype
           /\ \E e \in {"ValueError", "MWApiError"} :
                /\ Datatype("mathml")
                /\ Logged(c, Answered("property.get", <<prop_nr>>, e, NoDict))
           /\ UNCHANGED <<store, faults>>
        \/ /\ Fault
           /\ \E e \in {"ValueError", "ConnectionError"} :
                /\ Datatype("mathml")
                /\ Logged(c, Answered("property.get", <<prop_nr>>, e, NoDict))
           /\ UNCHANGED store

\* prop = self.property.get(entity_id=prop_nr); datatype = prop.datatype.value
\* inside try / except ValueError: datatype = "mathml".  What the library
\* raises for a property the store does not have is not fixed by this code:
\* either a ValueError or an API error.
property_datatype(c, next) ==
    LET S == store[world[c]]
        prop_nr == frame[c].prop_nr.v
        Datatype(d) == Goto(c, next, [frame[c] EXCEPT !.datatype = d])
    IN  \/ /\ prop_nr \in DOMAIN S.datatype
           /\ Datatype(S.datatype[prop_nr])
           /\ Logged(c, Answered("property.get", <<prop_nr>>, "ok", NoDict))
           /\ UNCHANGED <<store, faults>>
        \/ /\ prop_nr \notin DOMAIN S.datatype
           /\ \E e \in {"ValueError", "MWApiError"} :
                /\ IF e = "ValueError" THEN Datatype("mathml") ELSE Raise(c, e)
                /\ Logged(c, Answered("property.get", <<prop_nr>>, e, NoDict))
           /\ UNCHANGED <<store, faults>>
        \/ /\ Fault
           /\ \E e \in {"ValueError", "ConnectionError"} :
                /\ IF e = "ValueError" THEN Datatype("mathml") ELSE Raise(c, e)
                /\ Logged(c, Answered("property.get", <<prop_nr>>, e, NoDict))
           /\ UNCHANGED store

\* resolved_prop = self.get_local_id_by_label(prop_nr, "property")
get_claim_resolve(c) ==
    /\ op[c] = "get_claim" /\ pc[c] = "resolve_213"
    /\ get_local_id_by_label(c, args[c][1], "property", "check_214", "resolved_prop")
    /\ Frozen

\* a check that lets an unresolved property fall through to the MathML branch
get_claim_check_falling_back(c) ==
    /\ op[c] = "get_claim" /\ pc[c] = "check_214"
    /\ LET resolved_prop == frame[c].resolved_prop
           first == IF resolved_prop.type = "list" /\ resolved_prop.v # <<>>
                    THEN Str(resolved_prop.v[1])
                    ELSE resolved_prop
       IN  IF ~Truthy(resolved_prop)
           THEN Goto(c, "dispatch_227", [frame[c] EXCEPT !.prop_nr = first,
                                                         !.datatype = "mathml"])
           ELSE Goto(c, "get_222", [frame[c] EXCEPT !.resolved_prop = first,
                                                    !.prop_nr = first])
    /\ UNCHANGED <<store, log, faults>>
    /\ Frozen

\* if not resolved_prop: return []; a list gives its first element
get_claim_check(c) ==
    /\ op[c] = "get_claim" /\ pc[c] = "check_214"
    /\ LET resolved_prop == frame[c].resolved_prop
           first == IF resolved_prop.type = "list" THEN Str(resolved_prop.v[1])
                    ELSE resolved_prop
       IN  IF ~Truthy(resolved_prop)
           THEN Return(c, List(<<>>))
           ELSE Goto(c, "get_222", [frame[c] EXCEPT !.resolved_prop = first,
                                                    !.prop_nr = first])
    /\ UNCHANGED <<store, log, faults>>
    /\ Frozen

get_claim_fetch(c) ==
    /\ op[c] = "get_claim" /\ pc[c] = "get_222"
    /\ property_datatype(c, "dispatch_227")
    /\ Frozen

\* a dispatch that takes a url property for a string property
get_claim_dispatch_url_as_string(c) ==
    /\ op[c] = "get_claim" /\ pc[c] = "dispatch_227"
    /\ LET value == args[c][2]
           datatype == IF frame[c].datatype = "url" THEN "string" ELSE frame[c].datatype
           kwargs == DictSet(DictSet(args[c][3], "prop_nr", frame[c].prop_nr),
                             "value", value)
           f == [frame[c] EXCEPT !.kwargs = kwargs]
       IN  IF datatype = "wikibase-item" /\ value.type # "str"
           THEN Goto(c, "failed", [f EXCEPT !.exc = "AttributeError"])
           ELSE IF datatype = "wikibase-item" /\ StartsWith(value.v, wd)
           THEN Goto(c, "resolve_231", f)
           ELSE IF datatype = "wikibase-item" /\ value.v \in ProfileLabels
           THEN Goto(c, "resolve_240", f)
           ELSE IF Construct(datatype, kwargs, value) = None
           THEN Goto(c, "failed", [f EXCEPT !.exc = "ValueError",
                                            !.message = UnsupportedDatatype(datatype)])
           ELSE Goto(c, "done", [f EXCEPT !.ret = Construct(datatype, kwargs, value)])
    /\ UNCHANGED <<store, log, faults>>
    /\ Frozen

\* kwargs["prop_nr"], kwargs["value"] and the elif chain up to the first
\* call or return
get_claim_dispatch(c) ==
    /\ op[c] = "get_claim" /\ pc[c] = "dispatch_227"
    /\ LET value == args[c][2]
           datatype == frame[c].datatype
           kwargs == DictSet(DictSet(args[c][3], "prop_nr", frame[c].prop_nr),
                             "value", value)
           f == [frame[c] EXCEPT !.kwargs = kwargs]
       IN  IF datatype = "wikibase-item" /\ value.type # "str"
           THEN Goto(c, "failed", [f EXCEPT !.exc = "AttributeError"])
           ELSE IF datatype = "wikibase-item" /\ StartsWith(value.v, wd)
           THEN Goto(c, "resolve_231", f)
           ELSE IF datatype = "wikibase-item" /\ value.v \in ProfileLabels
           THEN Goto(c, "resolve_240", f)
           ELSE IF Construct(datatype, kwargs, value) = None
           THEN Goto(c, "failed", [f EXCEPT !.exc = "ValueError",
                                            !.message = UnsupportedDatatype(datatype)])
           ELSE Goto(c, "done", [f EXCEPT !.ret = Construct(datatype, kwargs, value)])
    /\ UNCHANGED <<store, log, faults>>
    /\ Frozen

\* the call of kwargs["value"] = self.get_local_id_by_label(value, "item")
get_claim_resolve_value(c) ==
    /\ op[c] = "get_claim" /\ pc[c] = "resolve_231"
    /\ get_local_id_by_label(c, args[c][2].v, "item", "item_247", "item_id")
    /\ Frozen

\* an Item claim built from the kwargs as they were before the resolution
get_claim_item_keeping_raw(c) ==
    /\ op[c] = "get_claim" /\ pc[c] = "item_247"
    /\ Goto(c, "done", [frame[c] EXCEPT
           !.ret = Construct(frame[c].datatype, frame[c].kwargs, args[c][2])])
    /\ UNCHANGED <<store, log, faults>>
    /\ Frozen

\* ... its assignment, and return Item(**kwargs)
get_claim_item(c) ==
    /\ op[c] = "get_claim" /\ pc[c] = "item_247"
    /\ LET kwargs == DictSet(frame[c].kwargs, "value", frame[c].item_id)
       IN  Goto(c, "done", [frame[c] EXCEPT
               !.kwargs = kwargs,
               !.ret = Construct(frame[c].datatype, kwargs, args[c][2])])
    /\ UNCHANGED <<store, log, faults>>
    /\ Frozen

\* item_id = self.get_local_id_by_label(value, "item") for a profile label
get_claim_resolve_profile(c) ==
    /\ op[c] = "get_claim" /\ pc[c] = "resolve_240"
    /\ get_local_id_by_label(c, args[c][2].v, "item", "profile_241", "item_id")
    /\ Frozen

\* the isinstance(item_id, list) / item_id is None / else branches
get_claim_profile(c) ==
    /\ op[c] = "get_claim" /\ pc[c] = "profile_241"
    /\ LET item_id == frame[c].item_id
           Item(x) ==
               LET kwargs == DictSet(frame[c].kwargs, "value", x)
               IN  Goto(c, "done", [frame[c] EXCEPT
                       !.kwargs = kwargs,
                       !.ret = Construct(frame[c].datatype, kwargs, args[c][2])])
       IN  IF item_id.type = "list" /\ item_id.v = <<>>
           THEN Raise(c, "IndexError")
           ELSE IF item_id.type = "list"
           THEN Item(Str(item_id.v[1]))
           ELSE IF item_id.type = "NoneType"
           THEN RaiseValueError(c, <<"Could not find item for: ">> \o args[c][2].v)
           ELSE Item(item_id)
    /\ UNCHANGED <<store, log, faults>>
    /\ Frozen

(* ------------------ MardiClient.search_entity_by_value ---------------- *)

\* a value written into the query without quotes, whatever its type
FormattedValue_unquoted(value) == value.v

\* formatted_value = f'"{value}"' if isinstance(value, str) else value, as
\* the f-string of the query renders it
FormattedValue(value) ==
    IF value.type = "str" THEN <<"\"">> \o value.v \o <<"\"">> ELSE value.v

\* query = f"SELECT ?item WHERE {{?item wdt:{prop_nr} {formatted_value}}}"
Query(prop_nr, value) ==
    <<"SELECT ?item WHERE {?item wdt:">> \o prop_nr.v \o <<" ">>
        \o FormattedValue(value) \o <<"}">>

\* re.search(r"\/(Q\d+)$", s): group 1 of the leftmost match, <<>> for none
RegexSearchTrailingQid(s) ==
    LET starts == {i \in 1..Len(s) - 1 :
                      /\ s[i] = "/"
                      /\ MatchId(s, i + 1) # <<>>
                      /\ s[i + 1] = "Q"}
    IN  IF starts = {} THEN <<>>
        ELSE MatchId(s, 1 + CHOOSE k \in starts : \A m \in starts : k <= m)

\* the loop over result["results"]["bindings"]: the IRIs of ?item give
\* QID_list
RECURSIVE QID_list(_)
QID_list(bindings) ==
    IF bindings = <<>> THEN <<>>
    ELSE LET match == RegexSearchTrailingQid(Head(bindings))
         IN  (IF match # <<>> THEN <<match>> ELSE <<>>) \o QID_list(Tail(bindings))

\* what a SPARQL endpoint binds ?item to: items, a property, a statement
\* node and a blank node
Iris ==
    {<<"https://example.org/entity", "/", "Q", "1">>,
     <<"https://example.org/entity", "/", "Q", "2", "1">>,
     <<"https://example.org/entity", "/", "P", "1">>,
     <<"https://example.org/entity/statement", "/", "Q", "1", "-", "1">>,
     <<"b0">>}

\* the local variables of search_entity_by_value
SearchFrame ==
    [resolved_prop |-> None, prop_nr |-> None, ret |-> None, exc |-> "none"]

\* resolved_prop = self.get_local_id_by_label(prop_nr, "property")
search_entity_by_value_resolve(c) ==
    /\ op[c] = "search_entity_by_value" /\ pc[c] = "resolve_177"
    /\ get_local_id_by_label(c, args[c][1], "property", "check_178", "resolved_prop")
    /\ Frozen

\* a check that takes the first element of a list
search_entity_by_value_check_taking_first(c) ==
    /\ op[c] = "search_entity_by_value" /\ pc[c] = "check_178"
    /\ LET resolved_prop == frame[c].resolved_prop
       IN  IF ~Truthy(resolved_prop)
           THEN Return(c, List(<<>>))
           ELSE Goto(c, "query_183",
                     [frame[c] EXCEPT !.prop_nr =
                         IF resolved_prop.type = "list" THEN Str(resolved_prop.v[1])
                         ELSE resolved_prop])
    /\ UNCHANGED <<store, log, faults>>
    /\ Frozen

\* if not resolved_prop or isinstance(resolved_prop, list): return []
search_entity_by_value_check(c) ==
    /\ op[c] = "search_entity_by_value" /\ pc[c] = "check_178"
    /\ LET resolved_prop == frame[c].resolved_prop
       IN  IF ~Truthy(resolved_prop) \/ resolved_prop.type = "list"
           THEN Return(c, List(<<>>))
           ELSE Goto(c, "query_183", [frame[c] EXCEPT !.prop_nr = resolved_prop])
    /\ UNCHANGED <<store, log, faults>>
    /\ Frozen

\* the query is built and executed; any exception of the execution gives
\* [], an answer gives the Q-IDs of its bindings
search_entity_by_value_query(c) ==
    /\ op[c] = "search_entity_by_value" /\ pc[c] = "query_183"
    /\ LET query == Query(frame[c].prop_nr, args[c][2])
       IN  \/ /\ \E bindings \in SeqsUpTo(Iris, MaxBindings) :
                    /\ Return(c, List(QID_list(bindings)))
                    /\ Logged(c, Answered("execute_sparql_query", <<query>>, "ok", bindings))
              /\ UNCHANGED <<store, faults>>
           \/ /\ Fault
              /\ \E e \in {"HTTPError", "ConnectionError", "RuntimeError"} :
                    /\ Return(c, List(<<>>))
                    /\ Logged(c, Answered("execute_sparql_query", <<query>>, e, <<>>))
              /\ UNCHANGED store
    /\ Frozen

(* ----------------------- MardiItem.write, called ---------------------- *)

\* the ID of the entity a write of "item" is about: a new item gets the
\* next free ID of the store
WrittenId(item) == IF item.id = <<>> THEN <<"Q", "3">> ELSE item.id

\* the labels and descriptions the entity has once "item" is written
WrittenLang(S, item, field) ==
    IF "en" \in DOMAIN item[field] THEN item[field]
    ELSE IF item.id = <<>> THEN NoLang
    ELSE S[field][item.id]

\* the other items that already carry the English label and description
\* the written entity would get: Wikibase refuses such a write
Conflicting(S, item) ==
    {q \in DOMAIN S.labels :
        /\ q # item.id
        /\ "en" \in DOMAIN S.labels[q]
        /\ "en" \in DOMAIN S.descriptions[q]
        /\ S.labels[q] = WrittenLang(S, item, "labels")
        /\ S.descriptions[q] = WrittenLang(S, item, "descriptions")}

\* the third parameter of the conflict message: a wiki link to the item
EntityLink(q) == <<"[[", "Item", ":">> \o q \o <<"|">> \o q \o <<"]]">>

\* wbeditentity for an existing item or, with "new", for an item without ID
WriteAnswer(S, item) ==
    LET id == WrittenId(item)
        Put(f, x) == [q \in DOMAIN f \cup {id} |-> IF q = id THEN x ELSE f[q]]
    IN  [S EXCEPT !.labels = Put(@, WrittenLang(S, item, "labels")),
                  !.descriptions = Put(@, WrittenLang(S, item, "descriptions")),
                  !.claims = Put(@, IF item.id = <<>> THEN item.claims ELSE @[id]),
                  !.redirects = Put(@, IF item.id = <<>> THEN <<>> ELSE @[id])]

\* the local variables of MardiItem.write and _handle_modification_failed;
\* "e" without message names stands for no exception caught
WriteFrame ==
    [e |-> [messages_names |-> {}, messages |-> <<>>], qid |-> <<>>,
     ret |-> NoItem, exc |-> "none"]

\* entity = super().write(**kwargs); return entity, inside try
write_super(c) ==
    /\ op[c] = "write" /\ pc[c] = "write_41"
    /\ LET S == store[world[c]]
           item == args[c][1]
           id == WrittenId(item)
           Caught(e) == Goto(c, "except_43", [frame[c] EXCEPT !.e = e])
       IN  \/ /\ Conflicting(S, item) = {}
              /\ UpdateStore(c, WriteAnswer(S, item))
              /\ Goto(c, "done", [frame[c] EXCEPT !.ret = Snapshot(WriteAnswer(S, item), id)])
              /\ Logged(c, Entry("write", <<id>>, "ok"))
              /\ UNCHANGED faults
           \/ /\ \E q \in Conflicting(S, item) :
                    Caught(ModificationFailed({LabelDescriptionConflict}, EntityLink(q)))
              /\ Logged(c, Entry("write", <<id>>, "conflict"))
              /\ UNCHANGED <<store, faults>>
           \/ /\ Fault
              /\ \E e \in ModificationFailures : Caught(e)
              /\ Logged(c, Entry("write", <<id>>, "fault"))
              /\ UNCHANGED store
           \/ /\ Fault
              /\ Raise(c, "ConnectionError")
              /\ Logged(c, Entry("write", <<id>>, "fault"))
              /\ UNCHANGED store
    /\ Frozen

\* except ModificationFailed as e: _handle_modification_failed(e) up to its
\* item.get; without a Q-ID it returns None and write re-raises e
write_except(c) ==
    /\ op[c] = "write" /\ pc[c] = "except_43"
    /\ LET qid == handle_modification_failed(frame[c].e)
       IN  IF qid = <<>>
           THEN Raise(c, "ModificationFailed")
           ELSE Goto(c, "get_67", [frame[c] EXCEPT !.qid = qid])
    /\ UNCHANGED <<store, log, faults>>
    /\ Frozen

\* return self.api.item.get(entity_id=qid), which write returns in turn
write_get(c) ==
    /\ op[c] = "write" /\ pc[c] = "get_67"
    /\ item_get(c, frame[c].qid, "done", frame[c], "ret")
    /\ Frozen

(* ------------------------- initial states ----------------------------- *)

Labels == {NoLang} \cup {Lang(v) : v \in SeqsUpTo(LabelChars, MaxLabelLen) \ {<<>>}}

PublicationDescriptions ==
    {NoLang, Lang(<<"article">>)} \cup {Lang(Description(v)) : v \in CatalogValues}

ClaimDicts ==
    {NoClaims} \cup
    {[p \in {zbmath_prop} |-> vs] :
        vs \in SeqsUpTo({Statement(v) : v \in CatalogValues}, MaxClaims) \ {<<>>}}

\* which of the two items have a page in namespace "profile"
PagesOf(profile, owners) ==
    [t \in Titles |->
        IF t[1] = profile /\ (\E q \in owners : t[2] = Replace(q, "Q", <<>>))
        THEN CHOOSE q \in owners : t[2] = Replace(q, "Q", <<>>)
        ELSE NoPage]

NoRedirects == [q \in QIDs |-> <<>>]

\* two author items: any labels, any Person pages
AuthorStores ==
    {[labels |-> l, descriptions |-> [q \in QIDs |-> NoLang],
      claims |-> [q \in QIDs |-> NoClaims], pages |-> PagesOf("Person", o),
      redirects |-> NoRedirects] :
        l \in [QIDs -> Labels], o \in SUBSET QIDs}

\* two publication items: any descriptions, P1451 statements, Publication pages
PublicationStores ==
    {[labels |-> [q \in QIDs |-> Lang(<<"a">>)], descriptions |-> d,
      claims |-> k, pages |-> PagesOf("Publication", o),
      redirects |-> NoRedirects] :
        d \in [QIDs -> PublicationDescriptions], k \in [QIDs -> ClaimDicts],
        o \in SUBSET QIDs}

StoresOf(kind) == IF kind = "merge_authors" THEN AuthorStores ELSE PublicationStores

Start(kind) == IF kind = "merge_authors" THEN "get_207" ELSE "get_268"

Pairs == {a \in QIDs \X QIDs : a[1] # a[2]}

\* one coordinator runs one merge
Init ==
    \E kind \in {"merge_authors", "merge_publications"}, a \in Pairs :
    \E S \in StoresOf(kind) :
        /\ op = [c \in Coordinators |-> IF c = 1 THEN kind ELSE "idle"]
        /\ args = [c \in Coordinators |-> a]
        /\ world = [c \in Coordinators |-> c]
        /\ store = [w \in Worlds |-> S]
        /\ initial = [w \in Worlds |-> S]
        /\ pc = [c \in Coordinators |-> IF c = 1 THEN Start(kind) ELSE "idle"]
        /\ frame = [c \in Coordinators |-> EmptyFrame(a)]
        /\ log = [c \in Coordinators |-> <<>>]
        /\ faults = 0

\* merge_authors(A, B) and merge_authors(B, A), each on its own copy of the
\* same store
InitMirror ==
    \E a \in Pairs, S \in AuthorStores :
        /\ op = [c \in Coordinators |-> "merge_authors"]
        /\ args = [c \in Coordinators |-> IF c = 1 THEN a ELSE <<a[2], a[1]>>]
        /\ world = [c \in Coordinators |-> c]
        /\ store = [w \in Worlds |-> S]
        /\ initial = [w \in Worlds |-> S]
        /\ pc = [c \in Coordinators |-> "get_207"]
        /\ frame = [c \in Coordinators |-> EmptyFrame(args[c])]
        /\ log = [c \in Coordinators |-> <<>>]
        /\ faults = 0

\* two merge_authors calls on the same two items of one and the same store
InitShared ==
    \E a \in Pairs, b \in Pairs, S \in AuthorStores :
        /\ op = [c \in Coordinators |-> "merge_authors"]
        /\ args = [c \in Coordinators |-> IF c = 1 THEN a ELSE b]
        /\ world = [c \in Coordinators |-> 1]
        /\ store = [w \in Worlds |-> S]
        /\ initial = [w \in Worlds |-> S]
        /\ pc = [c \in Coordinators |-> "get_207"]
        /\ frame = [c \in Coordinators |-> EmptyFrame(args[c])]
        /\ log = [c \in Coordinators |-> <<>>]
        /\ faults = 0

NextAuthors ==
    \E c \in Coordinators :
        \/ merge_authors_get_source(c)
        \/ merge_authors_get_target(c)
        \/ merge_authors_order(c)
        \/ merge_authors_delete_target(c)
        \/ merge_authors_move_source(c)
        \/ merge_authors_source_page(c)
        \/ merge_authors_target_page(c)
        \/ merge_authors_fallback(c)
        \/ merge_authors_fallback_delete(c)
        \/ merge_authors_fallback_move(c)
        \/ merge_authors_merge(c)

NextPublications ==
    \E c \in Coordinators :
        \/ merge_publications_get_source(c)
        \/ merge_publications_get_target(c)
        \/ merge_publications_harmonise(c)
        \/ merge_publications_write_source(c)
        \/ merge_publications_clear_target(c)
        \/ merge_publications_write_cleared_target(c)
        \/ merge_publications_write_target(c)
        \/ merge_publications_clear_source(c)
        \/ merge_publications_write_cleared_source(c)
        \/ merge_publications_delete_target(c)
        \/ merge_publications_move_source(c)
        \/ merge_publications_merge(c)

Next == NextAuthors \/ NextPublications

Spec == Init /\ [][Next]_vars

SpecMirror == InitMirror /\ [][NextAuthors]_vars

SpecShared == InitShared /\ [][NextAuthors]_vars

(* -------------------- MardiClient: initial states --------------------- *)

ResolverChars == {"P", "Q", "1", "a", Newline}

\* identifiers, labels and malformed strings, bare or behind wd: / wdt:
EntityStrings ==
    {prefix \o body : prefix \in {<<>>, wd, wdt}, body \in SeqsUpTo(ResolverChars, MaxIdLen)}

EntityTypes == {"property", "item"}

Range(s) == {s[i] : i \in 1..Len(s)}

\* no, one or two entities of each kind, all labelled "a"
EntitySets == {{}, {LocalIds[1], LocalIds[3]}, Range(LocalIds)}

NoMapping == [r \in {} |-> <<>>]

\* the importer knows the local counterparts of wd:Q1 and wdt:P1, or nothing
Mappings ==
    {NoMapping,
     [r \in {wd \o <<"Q", "1">>, wdt \o <<"P", "1">>} |->
         IF r[Len(r) - 1] = "Q" THEN <<"Q", "2">> ELSE <<"P", "2">>]}

ResolverStores ==
    {[label |-> [id \in E |-> <<"a">>],
      datatype |-> [id \in {e \in E : e[1] = "P"} |-> "string"],
      mapping |-> m] : E \in EntitySets, m \in Mappings}

\* one caller resolves one string, MaxCalls times in a row
InitResolver ==
    \E entity_str \in EntityStrings, entity_type \in EntityTypes, S \in ResolverStores :
        /\ op = [c \in Coordinators |-> IF c = 1 THEN "get_local_id_by_label" ELSE "idle"]
        /\ args = [c \in Coordinators |-> <<entity_str, entity_type>>]
        /\ world = [c \in Coordinators |-> c]
        /\ store = [w \in Worlds |-> S]
        /\ initial = [w \in Worlds |-> S]
        /\ pc = [c \in Coordinators |-> IF c = 1 THEN "call_123" ELSE "idle"]
        /\ frame = [c \in Coordinators |-> ClientFrame]
        /\ log = [c \in Coordinators |-> <<>>]
        /\ faults = 0

NextResolver ==
    \E c \in Coordinators :
        \/ resolve_call(c)
        \/ resolve_again(c)

SpecResolver == InitResolver /\ [][NextResolver]_vars

\* property identifiers: a local ID, a foreign reference, a label, the empty
\* string and a bare prefix
PropertyIdentifiers == {<<"P", "1">>, wdt \o <<"P", "1">>, <<"a">>, <<>>, wd}

\* raw values: a text, a foreign reference, a local ID, a profile label that
\* the items of a store carry, one that none carries, and the default
Values ==
    {Str(<<"hello">>), Str(wd \o <<"Q", "1">>), Str(<<"Q", "2">>),
     Str(<<"MaRDI person profile">>), Str(<<"MaRDI publication profile">>), None}

\* **kwargs of the caller
Extras == {NoDict, [k \in {"language"} |-> Str(<<"en">>)]}

\* a datatype a store may declare that the elif chain does not know
UnknownDatatypes == {"unsupported"}

\* properties labelled "a", items labelled as the person profile, all
\* properties of one datatype
ClaimStores ==
    {[label |-> [id \in E |-> IF id[1] = "Q" THEN <<"MaRDI person profile">> ELSE <<"a">>],
      datatype |-> [id \in {e \in E : e[1] = "P"} |-> d],
      mapping |-> m] :
        E \in EntitySets, d \in Datatypes \cup UnknownDatatypes, m \in Mappings}

\* one call get_claim(prop_nr, value, **kwargs)
InitClaim ==
    \E prop_nr \in PropertyIdentifiers, value \in Values, kwargs \in Extras,
       S \in ClaimStores :
        /\ op = [c \in Coordinators |-> IF c = 1 THEN "get_claim" ELSE "idle"]
        /\ args = [c \in Coordinators |-> <<prop_nr, value, kwargs>>]
        /\ world = [c \in Coordinators |-> c]
        /\ store = [w \in Worlds |-> S]
        /\ initial = [w \in Worlds |-> S]
        /\ pc = [c \in Coordinators |-> IF c = 1 THEN "resolve_213" ELSE "idle"]
        /\ frame = [c \in Coordinators |-> ClientFrame]
        /\ log = [c \in Coordinators |-> <<>>]
        /\ faults = 0

NextClaim ==
    \E c \in Coordinators :
        \/ get_claim_resolve(c)
        \/ get_claim_check(c)
        \/ get_claim_fetch(c)
        \/ get_claim_dispatch(c)
        \/ get_claim_resolve_value(c)
        \/ get_claim_item(c)
        \/ get_claim_resolve_profile(c)
        \/ get_claim_profile(c)

SpecClaim == InitClaim /\ [][NextClaim]_vars

(* -------------------- MardiItem.write: initial states ----------------- *)

\* two items with any labels and descriptions, no pages
WriteStores ==
    {[labels |-> l, descriptions |-> d, claims |-> [q \in QIDs |-> NoClaims],
      pages |-> PagesOf("Person", {}), redirects |-> NoRedirects] :
        l \in [QIDs -> Labels], d \in [QIDs -> {NoLang, Lang(<<"article">>)}]}

\* the items a caller writes: a new one or the first of the store, with or
\* without a label and a description of its own
WrittenItems ==
    {[id |-> id, labels |-> l, descriptions |-> d, claims |-> NoClaims, removed |-> {}] :
        id \in {<<>>, <<"Q", "1">>}, l \in Labels, d \in {NoLang, Lang(<<"article">>)}}

\* one call item.write()
InitWrite ==
    \E item \in WrittenItems, S \in WriteStores :
        /\ op = [c \in Coordinators |-> IF c = 1 THEN "write" ELSE "idle"]
        /\ args = [c \in Coordinators |-> <<item>>]
        /\ world = [c \in Coordinators |-> c]
        /\ store = [w \in Worlds |-> S]
        /\ initial = [w \in Worlds |-> S]
        /\ pc = [c \in Coordinators |-> IF c = 1 THEN "write_41" ELSE "idle"]
        /\ frame = [c \in Coordinators |-> WriteFrame]
        /\ log = [c \in Coordinators |-> <<>>]
        /\ faults = 0

NextWrite ==
    \E c \in Coordinators :
        \/ write_super(c)
        \/ write_except(c)
        \/ write_get(c)

SpecWrite == InitWrite /\ [][NextWrite]_vars

(* ------------- MardiClient.search_entity_by_value: initial states ----- *)

\* one call search_entity_by_value(prop_nr, value); the values searched for
\* are strings and a number, an int being kept as the digits str() gives
\* for it
InitSearch ==
    \E prop_nr \in PropertyIdentifiers, S \in ResolverStores,
       value \in {Str(<<"value">>), Str(<<>>), [type |-> "int", v |-> <<"4", "2">>]} :
        /\ op = [c \in Coordinators |-> IF c = 1 THEN "search_entity_by_value" ELSE "idle"]
        /\ args = [c \in Coordinators |-> <<prop_nr, value>>]
        /\ world = [c \in Coordinators |-> c]
        /\ store = [w \in Worlds |-> S]
        /\ initial = [w \in Worlds |-> S]
        /\ pc = [c \in Coordinators |-> IF c = 1 THEN "resolve_177" ELSE "idle"]
        /\ frame = [c \in Coordinators |-> SearchFrame]
        /\ log = [c \in Coordinators |-> <<>>]
        /\ faults = 0

NextSearch ==
    \E c \in Coordinators :
        \/ search_entity_by_value_resolve(c)
        \/ search_entity_by_value_check(c)
        \/ search_entity_by_value_query(c)

SpecSearch == InitSearch /\ [][NextSearch]_vars

(* ---------------------- vocabulary of the claims ---------------------- *)

Ended(c) == pc[c] \in {"done", "failed"}

\* the calls of one kind, and the page and merge calls, coordinator c issued
CallsOf(c, names) == SelectSeq(log[c], LAMBDA e : e.call \in names)

Shape(entries) == [i \in 1..Len(entries) |-> <<entries[i].call, entries[i].args>>]

PageAndMergeCalls(c) ==
    Shape(CallsOf(c, {"get_page", "delete_page", "move_page", "merge_items"}))

PageChanges(c) == Shape(CallsOf(c, {"delete_page", "move_page"}))

Writes(c) == Shape(CallsOf(c, {"write"}))

IsPrefix(s, t) == Len(s) <= Len(t) /\ s = SubSeq(t, 1, Len(s))

\* no call of coordinator c was refused or lost
NothingFailed(c) == \A i \in 1..Len(log[c]) : log[c][i].outcome \in {"ok", "reordered"}

MergeInvoked(c) == CallsOf(c, {"merge_items"}) # <<>>

\* the (source, target) pair the merge primitive was invoked with
MergePair(c) == CallsOf(c, {"merge_items"})[1].args

\* the English label an item had when the merge started
LabelAtStart(c, q) == EnglishLabel([labels |-> initial[world[c]].labels[q]])

PageAtStart(c, profile, q) ==
    initial[world[c]].pages[PageTitle(profile, Replace(q, "Q", <<>>))] # NoPage

PersonTitle(q) == PageTitle("Person", Replace(q, "Q", <<>>))

CarriesAtStart(c, q) == ClaimsGet(initial[world[c]].claims[q], zbmath_prop) # <<>>

Authors == {c \in Coordinators : op[c] = "merge_authors"}

Publications == {c \in Coordinators : op[c] = "merge_publications"}

(* ------------------------------ claims -------------------------------- *)

\* C1: whenever merge_authors invokes the merge primitive, the target it
\* passes is the item whose English label is not shorter than the source's,
\* and when both labels are non-empty and exactly one of them contains a
\* comma, the label with the comma is the target's.
C1_TargetHasPreferredLabel ==
    \A c \in Authors :
        MergeInvoked(c) =>
            LET ls == LabelAtStart(c, MergePair(c)[1])
                lt == LabelAtStart(c, MergePair(c)[2])
            IN  /\ Len(lt) >= Len(ls)
                /\ (ls # <<>> /\ lt # <<>> /\ Contains(ls, ",") # Contains(lt, ","))
                       => Contains(lt, ",")

\* C2: merge_authors(A, B) and merge_authors(B, A), started from the same
\* store, invoke the merge primitive with the same (source, target) pair
\* whatever the labels; with labels "a" (A) and "a," (B), the shape of
\* "Smith" and "Smith, John", both end with A absorbed into B.
C2_MirroredCallsAgree ==
    (MergeInvoked(1) /\ MergeInvoked(2)) =>
        /\ MergePair(1) = MergePair(2)
        /\ (/\ LabelAtStart(1, args[1][1]) = <<"a">>
            /\ LabelAtStart(1, args[1][2]) = <<"a", ",">>)
               => MergePair(1) = args[1]

\* The canonical page choreography of a labelled merge: delete the target's
\* Person page, move the source's page into its place, merge.
LabelledSequence(c) ==
    <<<<"delete_page", <<PersonTitle(frame[c].target_QID)>>>>,
      <<"move_page", <<PersonTitle(frame[c].source_QID), PersonTitle(frame[c].target_QID)>>>>,
      <<"merge_items", <<frame[c].source_QID, frame[c].target_QID>>>>>>

\* the labels have been read and the two ordering passes are over
Ordered(c) == pc[c] \notin {"get_207", "get_208", "order_210"} /\ frame[c].source_id # <<>>

C4_MissingTargetPageIsNoFailure ==
    \A c \in Authors :
        (/\ Ended(c)
         /\ Ordered(c)
         /\ frame[c].source_label # <<>>
         /\ ~PageAtStart(c, "Person", frame[c].target_QID)
         /\ faults = 0) =>
            /\ CallsOf(c, {"move_page"}) # <<>>
            /\ MergeInvoked(c)

\* C5: in merge_authors with both English labels empty, a run in which no
\* call fails ends as the page existence says: only the source has a page -
\* no delete or move, and the primitive gets (original target, original
\* source); both have one - the target's page is deleted, then the source's
\* moved to its slot, then the primitive gets the original pair; neither has
\* one - no delete or move, and the primitive gets the original pair.  In the
\* first and last case no delete or move is issued at any point of the run.
C5_EmptyLabelsFollowPages ==
    \A c \in Authors :
        LET source == args[c][1]
            target == args[c][2]
            ps == PageAtStart(c, "Person", source)
            pt == PageAtStart(c, "Person", target)
            reconciled == <<<<"delete_page", <<PersonTitle(target)>>>>,
                            <<"move_page", <<PersonTitle(source), PersonTitle(target)>>>>>>
        IN  (LabelAtStart(c, source) = <<>> /\ LabelAtStart(c, target) = <<>>) =>
                /\ (ps /\ ~pt) => PageChanges(c) = <<>>
                /\ (~ps /\ ~pt) => PageChanges(c) = <<>>
                /\ (ps /\ pt) => IsPrefix(PageChanges(c), reconciled)
                /\ MergeInvoked(c) =>
                      /\ (ps /\ ~pt) => MergePair(c) = <<target, source>>
                      /\ (~ps /\ ~pt) => MergePair(c) = <<source, target>>
                      /\ (ps /\ pt) => /\ MergePair(c) = <<source, target>>
                                       /\ PageChanges(c) = reconciled
                      /\ log[c][Len(log[c])].call = "merge_items"
                /\ (Ended(c) /\ NothingFailed(c)) => (pc[c] = "done" /\ MergeInvoked(c))

C5_Witness ==
    \E c \in Authors :
        /\ pc[c] = "done"
        /\ LabelAtStart(c, args[c][1]) = <<>>
        /\ LabelAtStart(c, args[c][2]) = <<>>
        /\ PageAtStart(c, "Person", args[c][1])
        /\ ~PageAtStart(c, "Person", args[c][2])
        /\ MergePair(c) = <<args[c][2], args[c][1]>>

\* C6 as stated: the pair merge_authors and merge_publications return is
\* always the (final source, final target) pair they passed to the merge
\* primitive; a different reported pair is never returned as a result.
C6_ReturnedPairIsPassedPair ==
    \A c \in Coordinators :
        pc[c] = "done" => frame[c].ret = MergePair(c)

\* C6 amended: merge_authors and merge_publications return the pair the
\* merge primitive reports, unchecked: it is the pair they passed whenever
\* the primitive echoes its arguments, and a reordered report is returned as
\* a normal result.
C6_ReturnsReportedPair ==
    \A c \in Coordinators :
        pc[c] = "done" =>
            LET call == CallsOf(c, {"merge_items"})[1]
            IN  /\ frame[c].exc = "none"
                /\ frame[c].ret = <<frame[c].results.from.id, frame[c].results.to.id>>
                /\ call.outcome = "ok" => frame[c].ret = call.args
                /\ call.outcome = "reordered" => frame[c].ret = <<call.args[2], call.args[1]>>
                /\ store[world[c]].redirects[frame[c].ret[1]] = frame[c].ret[2]

C6_Witness ==
    \E c \in Coordinators :
        /\ pc[c] = "done"
        /\ CallsOf(c, {"merge_items"})[1].outcome = "reordered"
        /\ frame[c].ret # MergePair(c)

Mutations == {"write", "delete_page", "move_page"}

\* a page removed by a successful delete_page stays removed unless a later
\* successful move_page fills its title, and a successful move_page stays
\* in place: nothing a merge has done is taken back
NothingUndone(c) ==
    \A i \in 1..Len(log[c]) :
        LET e == log[c][i]
            pages == store[world[c]].pages
        IN  /\ (e.call = "delete_page" /\ e.outcome = "ok") =>
                   \/ pages[e.args[1]] = NoPage
                   \/ \E j \in i + 1..Len(log[c]) :
                        /\ log[c][j].call = "move_page"
                        /\ log[c][j].outcome = "ok"
                        /\ log[c][j].args[2] = e.args[1]
            /\ (e.call = "move_page" /\ e.outcome = "ok") =>
                   /\ pages[e.args[1]] = RedirectPage
                   /\ pages[e.args[2]] \in QIDs

\* C7 as stated: in merge_authors and merge_publications a failed entity
\* write, page delete or page move always leaves the method as an exception
\* and is the last call of the run, and nothing done before is undone.
C7_EveryFailurePropagates ==
    \A c \in Coordinators :
        /\ \A i \in 1..Len(log[c]) :
              (log[c][i].call \in Mutations /\ log[c][i].outcome # "ok") =>
                  /\ pc[c] = "failed"
                  /\ frame[c].exc # "none"
                  /\ i = Len(log[c])
        /\ NothingUndone(c)

\* C7 amended: a failed page delete or page move, and a failed entity write
\* other than a label+description conflict whose message names the existing
\* item, leaves the method as an exception: it is the last call of the run
\* (no move after a failed delete, no merge), and nothing done before is
\* undone.  The named conflict is absorbed by MardiItem.write: the item is
\* not written, no exception is raised by that write and the merge goes on.
C7_FailuresPropagateButConflict ==
    \A c \in Coordinators :
        /\ \A i \in 1..Len(log[c]) :
              LET e == log[c][i]
              IN  /\ (e.call \in Mutations /\ e.outcome \in {"error", "fault"}) =>
                         /\ pc[c] = "failed"
                         /\ frame[c].exc # "none"
                         /\ i = Len(log[c])
                  /\ (e.call = "write" /\ e.outcome = "conflict") =>
                         ((i = Len(log[c]) /\ pc[c] = "failed") => frame[c].exc = "KeyError")
                  /\ e.outcome \in {"ok", "error", "fault", "conflict", "reordered"}
        /\ pc[c] = "failed" =>
              \/ frame[c].exc = "KeyError" /\ (log[c] = <<>> \/ log[c][Len(log[c])].outcome \in {"ok", "conflict", "error"})
              \/ log[c] # <<>> /\ log[c][Len(log[c])].outcome \in {"error", "fault"}
        /\ NothingUndone(c)

C7_Witness ==
    \E c \in Coordinators :
        /\ pc[c] = "failed"
        /\ Len(log[c]) >= 3
        /\ log[c][Len(log[c])].call = "delete_page"
        /\ log[c][Len(log[c])].outcome = "error"
        /\ frame[c].exc = "WBAPIException"

\* the first P1451 value an item carried when the merge started
CatalogValueAtStart(c, q) ==
    initial[world[c]].claims[q][zbmath_prop][1].mainsnak.datavalue.value

DescriptionAtStart(c, q) == initial[world[c]].descriptions[q]

\* the page calls and the merge have not begun
BeforePages(c) == CallsOf(c, {"delete_page", "move_page", "merge_items"}) = <<>>

\* position in log[c] of the first call of the given kind, 0 for none
FirstCall(c, name) ==
    IF \E i \in 1..Len(log[c]) : log[c][i].call = name
    THEN CHOOSE i \in 1..Len(log[c]) :
            /\ log[c][i].call = name
            /\ \A j \in 1..i - 1 : log[c][j].call # name
    ELSE 0

\* both items have been fetched and the if / elif on P1451 has been taken
Harmonised(c) ==
    /\ Len(log[c]) >= 2
    /\ log[c][2].outcome = "ok"
    /\ pc[c] # "harmonise_275"

\* C8 as stated: in merge_publications, when both items carry a P1451 claim
\* the harmonisation is skipped: no item is written and no English
\* description differs from what it was, up to the page calls and the merge.
C8_BothCarrySkipsHarmonisation ==
    \A c \in Publications :
        (CarriesAtStart(c, args[c][1]) /\ CarriesAtStart(c, args[c][2])) =>
            /\ Writes(c) = <<>>
            /\ BeforePages(c) =>
                  store[world[c]].descriptions = initial[world[c]].descriptions

\* C8 amended: in merge_publications, when both items carry a P1451 claim the
\* source's claim decides: the source's English description is set to the
\* text synthesized from the source's first P1451 value and the source is
\* written, then the target's English description is removed and the target
\* written - the run failing there when the target has none; both writes
\* precede the page calls and the target's P1451 value is never used.
C8_BothCarrySourceDecides ==
    \A c \in Publications :
        LET source == args[c][1]
            target == args[c][2]
            text == Lang(Description(CatalogValueAtStart(c, source)))
            S == store[world[c]]
            written(q) == \E i \in 1..Len(log[c]) :
                              /\ log[c][i].call = "write"
                              /\ log[c][i].args = <<q>>
                              /\ log[c][i].outcome = "ok"
        IN  (CarriesAtStart(c, source) /\ CarriesAtStart(c, target)) =>
                /\ IsPrefix(Writes(c), <<<<"write", <<source>>>>, <<"write", <<target>>>>>>)
                /\ ~BeforePages(c) => Len(Writes(c)) = 2
                /\ Harmonised(c) =>
                      /\ frame[c].source_item.descriptions = text
                      /\ "en" \notin frame[c].source_item.removed
                /\ (BeforePages(c) /\ written(source)) => S.descriptions[source] = text
                /\ (BeforePages(c) /\ ~written(source)) =>
                      S.descriptions[source] = DescriptionAtStart(c, source)
                /\ (BeforePages(c) /\ written(target)) => S.descriptions[target] = NoLang
                /\ (BeforePages(c) /\ ~written(target)) =>
                      S.descriptions[target] = DescriptionAtStart(c, target)
                /\ (Ended(c) /\ NothingFailed(c) /\ "en" \in DOMAIN DescriptionAtStart(c, target))
                      => Len(Writes(c)) = 2
                /\ (Ended(c) /\ "en" \notin DOMAIN DescriptionAtStart(c, target))
                      => Len(Writes(c)) <= 1 /\ pc[c] = "failed"

C8_Witness ==
    \E c \in Publications :
        /\ CarriesAtStart(c, args[c][1])
        /\ CarriesAtStart(c, args[c][2])
        /\ CatalogValueAtStart(c, args[c][1]) # CatalogValueAtStart(c, args[c][2])
        /\ pc[c] = "delete_293"
        /\ NothingFailed(c)
        /\ store[world[c]].descriptions[args[c][1]] # DescriptionAtStart(c, args[c][1])
        /\ store[world[c]].descriptions[args[c][2]] = NoLang

\* C9: in merge_publications, when exactly one item carries a P1451 claim, a
\* run in which no remote call fails writes that item with the description
\* synthesized from its first P1451 value, then writes the other item with
\* its English description removed, both before the page delete; when
\* neither item carries the claim nothing is written.
C9_ExactlyOneCarrierHarmonised ==
    \A c \in Publications :
        LET source == args[c][1]
            target == args[c][2]
            carrier == IF CarriesAtStart(c, source) THEN source ELSE target
            other == IF CarriesAtStart(c, source) THEN target ELSE source
            S == store[world[c]]
        IN  /\ (CarriesAtStart(c, source) # CarriesAtStart(c, target)
                   /\ Ended(c) /\ faults = 0) =>
                  /\ Writes(c) = <<<<"write", <<carrier>>>>, <<"write", <<other>>>>>>
                  /\ FirstCall(c, "delete_page") > FirstCall(c, "write") + 1
                  /\ BeforePages(c) =>
                        /\ S.descriptions[carrier] =
                               Lang(Description(CatalogValueAtStart(c, carrier)))
                        /\ S.descriptions[other] = NoLang
            /\ (~CarriesAtStart(c, source) /\ ~CarriesAtStart(c, target)) =>
                  /\ Writes(c) = <<>>
                  /\ BeforePages(c) => S.descriptions = initial[world[c]].descriptions

BothWritesStored(c) ==
    /\ Len(CallsOf(c, {"write"})) = 2
    /\ \A i \in 1..2 : CallsOf(c, {"write"})[i].outcome = "ok"

PublicationTitle(q) == PageTitle("Publication", Replace(q, "Q", <<>>))

PublicationSequence(c) ==
    <<<<"delete_page", <<PublicationTitle(args[c][2])>>>>,
      <<"move_page", <<PublicationTitle(args[c][1]), PublicationTitle(args[c][2])>>>>,
      <<"merge_items", <<args[c][1], args[c][2]>>>>>>

\* C11: merge_publications, whatever the claims and the page existence of
\* the two items, deletes the target's Publication page, then moves the
\* source's page to the target's slot, then invokes the merge primitive with
\* the caller's original (source, target): a run that met no transport
\* error, no refused write and no odd merge report ends with exactly these
\* three page and merge calls.
C11_AlwaysDeleteMoveMerge ==
    \A c \in Publications :
        (Ended(c) /\ faults = 0) => PageAndMergeCalls(c) = PublicationSequence(c)

\* one step of the merge_authors call of coordinator c, whichever it is
AuthorsStep(c) ==
    \/ merge_authors_get_source(c)
    \/ merge_authors_get_target(c)
    \/ merge_authors_order(c)
    \/ merge_authors_delete_target(c)
    \/ merge_authors_move_source(c)
    \/ merge_authors_source_page(c)
    \/ merge_authors_target_page(c)
    \/ merge_authors_fallback(c)
    \/ merge_authors_fallback_delete(c)
    \/ merge_authors_fallback_move(c)
    \/ merge_authors_merge(c)

\* the Person pages coordinator c has issued a delete for
DeletesIssued(c) == {e[2][1] : e \in {PageChanges(c)[i] : i \in 1..Len(PageChanges(c))} \cap
                                     {<<"delete_page", <<t>>>> : t \in Titles}}

\* C12: two merge_authors calls running on the same store and the same items
\* are not serialised by the coordinator: whatever the other call is doing,
\* a call that has not ended can always take its next step - no step waits
\* for a lock, and a call between its delete and its merge does not hold the
\* other back.  (That both calls issue a delete for the same target page
\* before either merges is the reachable state C12_Witness.)
C12_NoSerialisation ==
    \A c \in Authors : ~Ended(c) => ENABLED AuthorsStep(c)

C12_Witness ==
    /\ world[1] = world[2]
    /\ \E t \in Titles : t \in DeletesIssued(1) /\ t \in DeletesIssued(2)
    /\ \A c \in Coordinators : op[c] = "merge_authors" /\ ~MergeInvoked(c)

\* callers of get_local_id_by_label
Resolvers == {c \in Coordinators : op[c] = "get_local_id_by_label"}

\* P or Q followed by one or more digits, and nothing else
WholeLocalId(s) ==
    /\ Len(s) >= 2
    /\ s[1] \in {"P", "Q"}
    /\ \A i \in 2..Len(s) : s[i] \in Digits

\* what the calls of c have returned so far
Returned(c) ==
    IF pc[c] = "done" THEN Append(frame[c].returned, frame[c].ret) ELSE frame[c].returned

\* C13: for every string that as a whole is P or Q followed by digits,
\* get_local_id_by_label returns that string unchanged for either entity
\* type, every time it is called: the call does not fail, issues no request
\* to the search or the mapping service and leaves the store as it was.
C13_LocalIdReturnedUnchanged ==
    \A c \in Resolvers :
        WholeLocalId(args[c][1]) =>
            /\ pc[c] # "failed"
            /\ \A i \in 1..Len(Returned(c)) : Returned(c)[i] = Str(args[c][1])
            /\ log[c] = <<>>
            /\ store = initial

C13_Witness ==
    \E c \in Resolvers :
        /\ pc[c] = "done"
        /\ args[c] = <<<<"P", "1", "1">>, "item">>
        /\ Returned(c) = <<Str(<<"P", "1", "1">>), Str(<<"P", "1", "1">>)>>

\* neither a local ID nor behind a wd: / wdt: prefix
IsLabel(s) == ~WholeLocalId(s) /\ ~StartsWith(s, wd) /\ ~StartsWith(s, wdt)

\* a local ID followed by one newline, which the local pattern accepts too
LocalIdAndNewline(s) ==
    Len(s) >= 3 /\ s[Len(s)] = Newline /\ WholeLocalId(SubSeq(s, 1, Len(s) - 1))

KindLetter(entity_type) == IF entity_type = "item" THEN "Q" ELSE "P"

Endpoint(entity_type) == IF entity_type = "item" THEN "items" ELSE "properties"

\* the entities of the store of c that were not there at the start
Created(c) == DOMAIN store[world[c]].label \ DOMAIN initial[world[c]].label

\* C14 as stated: for a string that is not a local ID and has no wd:/wdt:
\* prefix, every call of get_local_id_by_label persists one new entity of
\* the requested kind with the string as its label and returns the one local
\* ID assigned to it, so that after n calls the store holds n new entities.
C14_LabelCreatesDraft ==
    \A c \in Resolvers :
        (IsLabel(args[c][1]) /\ pc[c] = "done") =>
            /\ Cardinality(Created(c)) = Len(Returned(c))
            /\ \A i \in 1..Len(Returned(c)) :
                  /\ Returned(c)[i].type = "str"
                  /\ Returned(c)[i].v \in Created(c)
                  /\ Returned(c)[i].v[1] = KindLetter(args[c][2])
                  /\ store[world[c]].label[Returned(c)[i].v] = args[c][1]

\* C14 amended: for such a string (a local ID followed by a newline set
\* aside) get_local_id_by_label looks the label up: it returns the list of
\* the local IDs the importer's search reports for the label among the
\* entities of the requested kind, the empty list when there is none, asking
\* the endpoint of that kind once per call (not at all for the empty
\* string); it writes nothing, so the store stays as it was however often
\* the call is repeated, and only a failed search request ends a call
\* without a result.
C14_LabelIsLookedUp ==
    \A c \in Resolvers :
        LET entity_str == args[c][1]
            hits == SearchHits(initial[world[c]], KindLetter(args[c][2]), entity_str)
            calls == Len(Returned(c)) + (IF pc[c] = "failed" THEN 1 ELSE 0)
        IN  (IsLabel(entity_str) /\ ~LocalIdAndNewline(entity_str)) =>
                /\ store = initial
                /\ \A i \in 1..Len(Returned(c)) : Returned(c)[i] = List(hits)
                /\ Len(log[c]) = (IF entity_str = <<>> THEN 0 ELSE calls)
                /\ \A i \in 1..Len(log[c]) :
                      /\ log[c][i].call = "search"
                      /\ log[c][i].args = <<Endpoint(args[c][2]), entity_str>>
                      /\ log[c][i].outcome # "ok" => (i = Len(log[c]) /\ pc[c] = "failed")
                /\ pc[c] = "failed" =>
                      frame[c].exc = log[c][Len(log[c])].outcome

C14_Witness ==
    \E c \in Resolvers :
        /\ pc[c] = "done"
        /\ args[c] = <<<<"a">>, "item">>
        /\ Len(log[c]) = 2
        /\ Returned(c) = <<List(<<<<"Q", "1">>, <<"Q", "2">>>>), List(<<<<"Q", "1">>, <<"Q", "2">>>>)>>

\* wd: or wdt: followed by P or Q and digits, and nothing else
ForeignRef(s) ==
    \/ StartsWith(s, wd) /\ WholeLocalId(SubSeq(s, Len(wd) + 1, Len(s)))
    \/ StartsWith(s, wdt) /\ WholeLocalId(SubSeq(s, Len(wdt) + 1, Len(s)))

\* the endpoint the letter of a foreign reference stands for
ForeignEndpoint(s) == IF s[Len(IF StartsWith(s, wdt) THEN wdt ELSE wd) + 1] = "Q"
                      THEN "items" ELSE "properties"

\* C15: for a string that is wd: or wdt: followed by P or Q and digits, each
\* call of get_local_id_by_label asks the mapping service once, with the full
\* reference, at the items endpoint for Q and the properties endpoint for P,
\* and returns the local_id field of the answer: None when the answer has no
\* local_id (null or absent).
C15_ForeignRefMapped ==
    \A c \in Resolvers :
        ForeignRef(args[c][1]) =>
            \A i \in 1..Len(Returned(c)) :
                /\ log[c][i].call = "mapping"
                /\ log[c][i].args = <<ForeignEndpoint(args[c][1]), args[c][1]>>
                /\ log[c][i].outcome = "ok" =>
                      Returned(c)[i] = DictGet(log[c][i].response, "local_id")

\* C16: for such a string, a mapping request that fails (connection error,
\* timeout, HTTP error status) makes that call return None: no call ends
\* with an exception and the store stays as it was.
C16_MappingFailureGivesNone ==
    \A c \in Resolvers :
        ForeignRef(args[c][1]) =>
            /\ pc[c] # "failed"
            /\ frame[c].exc = "none"
            /\ store = initial
            /\ Len(log[c]) = Len(Returned(c))
            /\ \A i \in 1..Len(Returned(c)) :
                  log[c][i].outcome # "ok" => Returned(c)[i] = None

C16_Witness ==
    \E c \in Resolvers :
        /\ pc[c] = "done"
        /\ args[c] = <<wd \o <<"Q", "1">>, "item">>
        /\ Len(log[c]) = 1
        /\ log[c][1].outcome = "HTTPError"
        /\ Returned(c) = <<None>>

\* callers of get_claim
Builders == {c \in Coordinators : op[c] = "get_claim"}

\* the resolver has returned its result for the property identifier (a
\* failed search request makes it raise instead)
Resolved(c) ==
    /\ pc[c] # "resolve_213"
    /\ \/ log[c] = <<>>
       \/ log[c][1].call # "search"
       \/ log[c][1].outcome = "ok"

\* C17 as stated: when the resolver cannot resolve the property identifier
\* (its result is None or empty), get_claim returns a MathML claim carrying
\* the original value; it does not return an empty result.
C17_UnresolvedGivesMathML ==
    \A c \in Builders :
        (Resolved(c) /\ pc[c] = "done" /\ ~Truthy(frame[c].resolved_prop)) =>
            /\ frame[c].ret.type = "claim"
            /\ frame[c].ret.constructor = "MathML"
            /\ frame[c].ret.kwargs["value"] = args[c][2]

\* C17 amended: when the resolver's result for the property identifier is
\* None or empty, get_claim returns the empty list: no claim is built, no
\* property metadata is fetched, nothing is raised, and the only request of
\* the run is the resolver's own.
C17_UnresolvedGivesEmptyList ==
    \A c \in Builders :
        (Resolved(c) /\ ~Truthy(frame[c].resolved_prop)) =>
            /\ pc[c] \in {"check_214", "done"}
            /\ pc[c] = "done" => frame[c].ret = List(<<>>)
            /\ frame[c].exc = "none"
            /\ Len(log[c]) <= 1
            /\ \A i \in 1..Len(log[c]) : log[c][i].call \in {"search", "mapping"}
            /\ store = initial

C17_Witness ==
    \E c \in Builders :
        /\ pc[c] = "done"
        /\ args[c][1] = wd
        /\ args[c][2] = Str(<<"hello">>)
        /\ frame[c].resolved_prop = None
        /\ frame[c].ret = List(<<>>)

\* the property.get requests of c, and whether one has been made
Fetches(c) == CallsOf(c, {"property.get"})

Fetched(c) == Fetches(c) # <<>>

\* the keyword arguments get_claim starts from: the caller's extras, the
\* resolved property and the raw value
PlainKwargs(c) ==
    [k \in DOMAIN args[c][3] \cup {"prop_nr", "value"} |->
        IF k = "prop_nr" THEN frame[c].resolved_prop
        ELSE IF k = "value" THEN args[c][2]
        ELSE args[c][3][k]]

\* a local ID given as property identifier is the resolved property
ResolvedAsGiven(c) ==
    WholeLocalId(args[c][1]) => frame[c].resolved_prop = Str(args[c][1])

\* C18 as stated: when the property identifier resolves and the fetch of the
\* property's metadata fails, whatever the failure, get_claim returns a
\* MathML claim whose fields are exactly the resolved property ID, the
\* original value and the caller's extra fields.
C18_FailedFetchGivesMathML ==
    \A c \in Builders :
        (Fetched(c) /\ Fetches(c)[1].outcome # "ok" /\ Ended(c)) =>
            /\ pc[c] = "done"
            /\ frame[c].ret = Claim("MathML", PlainKwargs(c))

\* C18 amended: when the property identifier resolves and the fetch of the
\* property's metadata raises a ValueError, get_claim returns a MathML claim
\* whose fields are exactly the resolved property ID, the original value and
\* the caller's extra fields, and no other constructor is invoked; any other
\* failure of the fetch (transport or API error) ends get_claim with that
\* error and no claim.
C18_ValueErrorGivesMathML ==
    \A c \in Builders :
        (Fetched(c) /\ Fetches(c)[1].outcome # "ok" /\ Ended(c)) =>
            /\ ResolvedAsGiven(c)
            /\ Len(Fetches(c)) = 1
            /\ Fetches(c)[1].args = <<frame[c].resolved_prop.v>>
            /\ IF Fetches(c)[1].outcome = "ValueError"
               THEN /\ pc[c] = "done"
                    /\ frame[c].exc = "none"
                    /\ frame[c].ret = Claim("MathML", PlainKwargs(c))
               ELSE /\ pc[c] = "failed"
                    /\ frame[c].exc = Fetches(c)[1].outcome
                    /\ frame[c].ret = None

C18_Witness ==
    \E c \in Builders :
        /\ pc[c] = "done"
        /\ args[c] = <<<<"P", "1">>, Str(<<"hello">>), [k \in {"language"} |-> Str(<<"en">>)]>>
        /\ Fetches(c)[1].outcome = "ValueError"
        /\ frame[c].ret.constructor = "MathML"
        /\ DOMAIN frame[c].ret.kwargs = {"prop_nr", "value", "language"}
        /\ frame[c].ret.kwargs["prop_nr"] = Str(<<"P", "1">>)
        /\ frame[c].ret.kwargs["value"] = Str(<<"hello">>)

\* the field that carries the raw value for a kind
ValueField(datatype) ==
    IF datatype = "monolingualtext" THEN "text"
    ELSE IF datatype = "quantity" THEN "amount"
    ELSE IF datatype = "time" THEN "time"
    ELSE "value"

\* the fields a claim of c has besides the caller's extras
ClaimFields(c) == DOMAIN frame[c].ret.kwargs \ DOMAIN args[c][3]

Built(c) == pc[c] = "done" /\ frame[c].ret.type = "claim"

\* C19 as stated: a claim built for a property of kind monolingualtext,
\* quantity or time carries the raw value under text, amount or time and has
\* no value field; a claim of every other kind carries the raw value under
\* value.
C19_RawValueUnderKindField ==
    \A c \in Builders :
        Built(c) =>
            /\ ClaimFields(c) = {"prop_nr", ValueField(frame[c].datatype)}
            /\ frame[c].ret.kwargs[ValueField(frame[c].datatype)] = args[c][2]

\* C19 amended: as stated, except that for kind wikibase-item a raw value
\* that starts with wd: or is one of the profile labels is replaced, under
\* value, by what the resolver returns for it; every other raw value and
\* every other kind keeps the raw value.
C19_RawValueUnlessResolvedItem ==
    \A c \in Builders :
        Built(c) =>
            LET field == ValueField(frame[c].datatype)
                raw == args[c][2]
                resolved == /\ frame[c].datatype = "wikibase-item"
                            /\ raw.type = "str"
                            /\ (StartsWith(raw.v, wd) \/ raw.v \in ProfileLabels)
            IN  /\ ClaimFields(c) = {"prop_nr", field}
                /\ frame[c].ret.kwargs["prop_nr"] = frame[c].resolved_prop
                /\ \A k \in DOMAIN args[c][3] \ {field} :
                      frame[c].ret.kwargs[k] = args[c][3][k]
                /\ ~resolved => frame[c].ret.kwargs[field] = raw
                /\ resolved =>
                      /\ log[c][Len(log[c])].call \in {"search", "mapping"}
                      /\ frame[c].ret.kwargs[field] =
                            (IF frame[c].item_id.type = "list"
                             THEN Str(frame[c].item_id.v[1])
                             ELSE frame[c].item_id)

C19_Witness ==
    \E c \in Builders :
        /\ pc[c] = "done"
        /\ frame[c].datatype = "monolingualtext"
        /\ args[c] = <<<<"a">>, Str(<<"hello">>), [k \in {"language"} |-> Str(<<"en">>)]>>
        /\ frame[c].ret.constructor = "MonolingualText"
        /\ DOMAIN frame[c].ret.kwargs = {"prop_nr", "language", "text"}
        /\ frame[c].ret.kwargs["prop_nr"] = Str(<<"P", "1">>)
        /\ frame[c].ret.kwargs["language"] = Str(<<"en">>)
        /\ frame[c].ret.kwargs["text"] = Str(<<"hello">>)

\* the datatype the store declares for the property c resolved
Declared(c) == initial[world[c]].datatype[frame[c].resolved_prop.v]

\* the metadata of the resolved property have been fetched and dispatched on
Dispatched(c) ==
    /\ Fetched(c)
    /\ Fetches(c)[1].outcome = "ok"
    /\ pc[c] \notin {"get_222", "dispatch_227"}

\* C20: when the datatype declared for the resolved property is none of the
\* 18 kinds of the elif chain, get_claim ends with a ValueError whose message
\* is "Unsupported datatype: " followed by the declared datatype; no claim
\* is returned, MathML or other.
C20_UnknownDatatypeRaises ==
    \A c \in Builders :
        (Dispatched(c) /\ Declared(c) \notin Datatypes) =>
            /\ pc[c] = "failed"
            /\ frame[c].exc = "ValueError"
            /\ frame[c].message = <<"Unsupported datatype: ", Declared(c)>>
            /\ frame[c].ret = None

C20_Witness ==
    \E c \in Builders :
        /\ pc[c] = "failed"
        /\ Dispatched(c)
        /\ Declared(c) = "unsupported"
        /\ frame[c].message = <<"Unsupported datatype: ", "unsupported">>

\* callers whose property turned out item-valued and that returned a claim
ItemBuilt(c) == Built(c) /\ frame[c].datatype = "wikibase-item"

\* the requests c made at the items endpoints: those of the resolver called
\* with kind item
ItemRequests(c) ==
    SelectSeq(log[c], LAMBDA e : e.call \in {"search", "mapping"}
                                 /\ e.args[1] = "items")

\* C21 as stated: for an item-valued property, every raw value that is not a
\* local ID (a foreign reference or a label) is resolved through the resolver
\* with kind item, and the claim carries the resolved ID, never the raw value.
C21_EveryReferenceResolved ==
    \A c \in Builders :
        (ItemBuilt(c) /\ ~WholeLocalId(args[c][2].v)) =>
            /\ ItemRequests(c) # <<>>
            /\ frame[c].ret.kwargs["value"] # args[c][2]

\* C21 amended: for an item-valued property, a raw value that starts with
\* "wd:" is resolved through the resolver with kind item (one mapping request
\* at the items endpoint for the whole reference) and the Item claim carries,
\* on the resolved property, what the resolver returned, never the raw
\* reference; a raw value that neither starts with "wd:" nor is a profile
\* label (a local ID or any other label) is not resolved and is carried as
\* given.
C21_PrefixedReferenceResolved ==
    \A c \in Builders :
        ItemBuilt(c) =>
            LET raw == args[c][2]
                claim == frame[c].ret
            IN  /\ claim.constructor = "Item"
                /\ claim.kwargs["prop_nr"] = frame[c].resolved_prop
                /\ StartsWith(raw.v, wd) =>
                      /\ Len(ItemRequests(c)) = 1
                      /\ ItemRequests(c)[1].call = "mapping"
                      /\ ItemRequests(c)[1].args = <<"items", raw.v>>
                      /\ claim.kwargs["value"] =
                            (IF ItemRequests(c)[1].outcome = "ok"
                             THEN StrOf(DictGet(ItemRequests(c)[1].response, "local_id"))
                             ELSE None)
                      /\ claim.kwargs["value"] # raw
                /\ (~StartsWith(raw.v, wd) /\ raw.v \notin ProfileLabels) =>
                      /\ ItemRequests(c) = <<>>
                      /\ claim.kwargs["value"] = raw

C21_Witness ==
    \E c \in Builders :
        /\ pc[c] = "done"
        /\ args[c][1] = <<"P", "1">>
        /\ args[c][2] = Str(wd \o <<"Q", "1">>)
        /\ frame[c].ret.constructor = "Item"
        /\ frame[c].ret.kwargs["prop_nr"] = Str(<<"P", "1">>)
        /\ frame[c].ret.kwargs["value"] = Str(<<"Q", "2">>)

\* callers that passed a profile label as value of an item-valued property
\* and whose search for the label was answered
ProfileResolved(c) ==
    /\ frame[c].datatype = "wikibase-item"
    /\ args[c][2].type = "str"
    /\ args[c][2].v \in ProfileLabels
    /\ pc[c] \in {"done", "failed"}
    /\ ItemRequests(c) # <<>>
    /\ ItemRequests(c)[1].outcome = "ok"

\* the items of c's store that carry the label, in the order of the search
Candidates(c, label) == SearchHits(initial[world[c]], "Q", label)

\* C22: for an item-valued property and a raw value that is one of the six
\* profile labels, the claim carries a single local ID, the first of the
\* candidates the resolver finds; when the resolver finds no entity, get_claim
\* fails with the entity-not-found error ("Could not find item for: " and
\* the label) and returns no claim.
C22_ProfileLabelSingleId ==
    \A c \in Builders :
        ProfileResolved(c) =>
            LET label == args[c][2].v
            IN  IF Candidates(c, label) # <<>>
                THEN /\ pc[c] = "done"
                     /\ frame[c].ret.constructor = "Item"
                     /\ frame[c].ret.kwargs["value"] = Str(Candidates(c, label)[1])
                ELSE /\ pc[c] = "failed"
                     /\ frame[c].ret = None
                     /\ frame[c].exc = "ValueError"
                     /\ frame[c].message = <<"Could not find item for: ">> \o label

\* the claim class of the library (and MathML) that stands for a kind
ClassOfKind ==
    [k \in Datatypes |->
        CASE k = "wikibase-item" -> "Item"
          [] k = "commonsMedia" -> "CommonsMedia"
          [] k = "external-id" -> "ExternalID"
          [] k = "wikibase-form" -> "Form"
          [] k = "geo-shape" -> "GeoShape"
          [] k = "globe-coordinate" -> "GlobeCoordinate"
          [] k = "wikibase-lexeme" -> "Lexeme"
          [] k = "math" -> "Math"
          [] k = "monolingualtext" -> "MonolingualText"
          [] k = "musical-notation" -> "MusicalNotation"
          [] k = "wikibase-property" -> "Property"
          [] k = "quantity" -> "Quantity"
          [] k = "wikibase-sense" -> "Sense"
          [] k = "string" -> "String"
          [] k = "tabular-data" -> "TabularData"
          [] k = "time" -> "Time"
          [] k = "url" -> "URL"
          [] k = "mathml" -> "MathML"]

\* C23: for every kind k of the closed set, get_claim on a property whose
\* metadata declare k builds its claim with the class of k and no other, and
\* the claim carries the resolved property ID; for every kind but
\* wikibase-item the claim is always returned; a run for wikibase-item that
\* fails does so while resolving the value (no claim is built); no kind of
\* the set ends in the unsupported-kind error.
C23_EveryKindOwnClass ==
    \A c \in Builders :
        (Dispatched(c) /\ Declared(c) \in Datatypes) =>
            /\ frame[c].datatype = Declared(c)
            /\ Declared(c) # "wikibase-item" => pc[c] = "done"
            /\ pc[c] = "done" =>
                  /\ frame[c].ret.type = "claim"
                  /\ frame[c].ret.constructor = ClassOfKind[Declared(c)]
                  /\ frame[c].ret.kwargs["prop_nr"] = frame[c].resolved_prop
            /\ pc[c] = "failed" =>
                  /\ frame[c].ret = None
                  /\ frame[c].message # <<"Unsupported datatype: ", Declared(c)>>

C23_Witness ==
    \E c \in Builders :
        /\ pc[c] = "done"
        /\ Dispatched(c)
        /\ Declared(c) = "url"
        /\ args[c][2] = Str(<<"hello">>)
        /\ frame[c].ret.constructor = "URL"
        /\ frame[c].ret.kwargs["prop_nr"] = frame[c].resolved_prop
        /\ frame[c].ret.kwargs["value"] = Str(<<"hello">>)

\* callers of MardiItem.write
Writers == {c \in Coordinators : op[c] = "write"}

\* the inherited write of c failed with a ModificationFailed, which write
\* has handled
Handled(c) ==
    /\ frame[c].e.messages_names # {}
    /\ pc[c] # "except_43"

\* the item.get requests of c
Gets(c) == CallsOf(c, {"get"})

\* C24: when the inherited write fails with a ModificationFailed that names
\* the label and description conflict and whose payload holds a Q-ID, write
\* fetches the item of that Q-ID and returns it, and the ModificationFailed
\* does not reach the caller; for a ModificationFailed of another cause, or
\* one whose payload holds no Q-ID, no item is fetched and the
\* ModificationFailed reaches the caller.  The store is as it was.
C24_ConflictReturnsExisting ==
    \A c \in Writers :
        Handled(c) =>
            LET e == frame[c].e
                qid == RegexSearchQid(e.messages[1].parameters[3])
            IN  /\ store = initial
                /\ IF LabelDescriptionConflict \in e.messages_names /\ qid # <<>>
                   THEN /\ frame[c].exc # "ModificationFailed"
                        /\ pc[c] = "get_67" => Gets(c) = <<>>
                        /\ Ended(c) =>
                              /\ Len(Gets(c)) = 1
                              /\ Gets(c)[1].args = <<qid>>
                              /\ Gets(c)[1].outcome = "ok" =>
                                    /\ pc[c] = "done"
                                    /\ frame[c].ret = Snapshot(initial[world[c]], qid)
                   ELSE /\ pc[c] = "failed"
                        /\ frame[c].exc = "ModificationFailed"
                        /\ frame[c].ret = NoItem
                        /\ Gets(c) = <<>>

\* a new item with the label and description of Q2 is written: Q2 is returned
C24_Witness ==
    \E c \in Writers :
        /\ pc[c] = "done"
        /\ args[c][1].id = <<>>
        /\ faults = 0
        /\ frame[c].e = ModificationFailed({LabelDescriptionConflict},
                                           EntityLink(<<"Q", "2">>))
        /\ frame[c].ret.id = <<"Q", "2">>
        /\ frame[c].ret.labels = args[c][1].labels
        /\ frame[c].ret.descriptions = args[c][1].descriptions

\* callers of search_entity_by_value
Searchers == {c \in Coordinators : op[c] = "search_entity_by_value"}

\* the SPARQL executions of c
Executions(c) == CallsOf(c, {"execute_sparql_query"})

\* the last three fragments of an IRI are "/", "Q" and digits from there on
EndsInQid(iri, from) ==
    /\ from >= 1
    /\ from + 2 <= Len(iri)
    /\ iri[from] = "/"
    /\ iri[from + 1] = "Q"
    /\ \A i \in from + 2..Len(iri) : iri[i] \in Digits

\* the Q-IDs that end the IRIs of the bindings, in binding order
RECURSIVE TrailingQids(_)
TrailingQids(bindings) ==
    IF bindings = <<>> THEN <<>>
    ELSE LET iri == Head(bindings)
             froms == {i \in 1..Len(iri) : EndsInQid(iri, i)}
         IN  (IF froms = {} THEN <<>>
              ELSE LET from == CHOOSE i \in froms : TRUE
                   IN  <<SubSeq(iri, from + 1, Len(iri))>>)
             \o TrailingQids(Tail(bindings))

\* C25: the query search_entity_by_value executes is "SELECT ?item WHERE
\* {?item wdt:<P> <V>}" with <P> the ID the resolver returned for the
\* property identifier (not the identifier as passed) and <V> the value in
\* double quotes when it is a string, as it is when it is a number; the
\* result is, in binding order, the trailing Q<digits> of the IRI of each
\* binding, bindings whose IRI does not end in /Q<digits> being skipped.
C25_QueryAndTrailingQids ==
    \A c \in Searchers :
        Executions(c) # <<>> =>
            LET call == Executions(c)[1]
                value == args[c][2]
                prop == frame[c].resolved_prop
            IN  /\ Len(Executions(c)) = 1
                /\ prop.type = "str"
                /\ WholeLocalId(args[c][1]) => prop.v = args[c][1]
                /\ ForeignRef(args[c][1]) =>
                      /\ prop = StrOf(DictGet(log[c][1].response, "local_id"))
                      /\ prop.v # args[c][1]
                /\ call.args[1] =
                      <<"SELECT ?item WHERE {?item wdt:">> \o prop.v \o <<" ">>
                      \o (IF value.type = "str"
                          THEN <<"\"">> \o value.v \o <<"\"">>
                          ELSE value.v)
                      \o <<"}">>
                /\ call.outcome = "ok" =>
                      /\ pc[c] = "done"
                      /\ frame[c].ret = List(TrailingQids(call.response))

C25_Witness ==
    \E c \in Searchers :
        /\ pc[c] = "done"
        /\ args[c] = <<wdt \o <<"P", "1">>, Str(<<"value">>)>>
        /\ Executions(c) # <<>>
        /\ Executions(c)[1].args[1] =
              <<"SELECT ?item WHERE {?item wdt:", "P", "2", " ", "\"", "value", "\"", "}">>
        /\ Executions(c)[1].response =
              <<<<"https://example.org/entity", "/", "P", "1">>,
                <<"https://example.org/entity", "/", "Q", "2", "1">>>>
        /\ frame[c].ret = List(<<<<"Q", "2", "1">>>>)

\* the resolver has returned its result to search_entity_by_value (a failed
\* search request makes it raise instead)
SearchResolved(c) ==
    /\ pc[c] # "resolve_177"
    /\ \/ log[c] = <<>>
       \/ log[c][1].call # "search"
       \/ log[c][1].outcome = "ok"

\* C26: search_entity_by_value returns the empty list and raises nothing
\* when the resolver's result for the property identifier is None, empty or
\* a list, and then no SPARQL query is executed, and when the execution of
\* the query raises an exception.
C26_UnresolvedOrFailedGivesEmpty ==
    \A c \in Searchers :
        /\ (/\ SearchResolved(c)
            /\ \/ ~Truthy(frame[c].resolved_prop)
               \/ frame[c].resolved_prop.type = "list") =>
                 /\ Executions(c) = <<>>
                 /\ pc[c] \in {"check_178", "done"}
                 /\ pc[c] = "done" => frame[c].ret = List(<<>>)
                 /\ frame[c].exc = "none"
        /\ (Executions(c) # <<>> /\ Executions(c)[1].outcome # "ok") =>
                 /\ pc[c] = "done"
                 /\ frame[c].ret = List(<<>>)
                 /\ frame[c].exc = "none"

\* a label that one property carries resolves to a list: nothing is executed
C26_Witness ==
    \E c \in Searchers :
        /\ pc[c] = "done"
        /\ args[c][1] = <<"a">>
        /\ frame[c].resolved_prop = List(<<<<"P", "1">>>>)
        /\ log[c][Len(log[c])].call = "search"
        /\ frame[c].ret = List(<<>>)

\* of the two items c was called with, the one without English label when
\* exactly one has none; <<>> otherwise
Unlabelled(c) ==
    LET empty == {q \in {args[c][1], args[c][2]} : LabelAtStart(c, q) = <<>>}
    IN  IF Cardinality(empty) = 1 /\ args[c][1] # args[c][2]
        THEN CHOOSE q \in empty : TRUE
        ELSE <<>>

\* the other one
Labelled(c) == IF Unlabelled(c) = args[c][1] THEN args[c][2] ELSE args[c][1]

\* C27: in merge_authors, when exactly one of the two English labels is
\* empty, the item without label ends up as source and the labelled item as
\* target, and the run issues no page-existence check, no page delete and
\* no page move: the merge primitive is the only call that changes the
\* store, and every page, a Person page of the absorbed item included,
\* stays where it is.
C27_OneEmptyLabelMergesOnly ==
    \A c \in Authors :
        Unlabelled(c) # <<>> =>
            /\ CallsOf(c, {"get_page", "delete_page", "move_page", "write"}) = <<>>
            /\ store[world[c]].pages = initial[world[c]].pages
            /\ Ordered(c) =>
                  /\ frame[c].source_QID = Unlabelled(c)
                  /\ frame[c].target_QID = Labelled(c)
            /\ MergeInvoked(c) =>
                  /\ MergePair(c) = <<Unlabelled(c), Labelled(c)>>
                  /\ Len(CallsOf(c, {"merge_items"})) = 1
            /\ ~MergeInvoked(c) => store = initial
            /\ (Ended(c) /\ NothingFailed(c)) => (pc[c] = "done" /\ MergeInvoked(c))

\* the labelled item was passed as source; the item without label was
\* absorbed and its Person page is still there
C27_Witness ==
    \E c \in Authors :
        /\ pc[c] = "done"
        /\ LabelAtStart(c, args[c][1]) # <<>>
        /\ LabelAtStart(c, args[c][2]) = <<>>
        /\ PageAtStart(c, "Person", args[c][2])
        /\ MergePair(c) = <<args[c][2], args[c][1]>>
        /\ store[world[c]].redirects[args[c][2]] = args[c][1]
        /\ store[world[c]].pages[PersonTitle(args[c][2])] # NoPage

\* of the two items c was called with, the one that carries P1451 when
\* exactly one does; <<>> otherwise
Carrier(c) ==
    IF CarriesAtStart(c, args[c][1]) = CarriesAtStart(c, args[c][2]) THEN <<>>
    ELSE IF CarriesAtStart(c, args[c][1]) THEN args[c][1]
    ELSE args[c][2]

\* C28: in merge_publications, when exactly one item carries a P1451 claim
\* and the other item has no English description, the run never completes:
\* unless a call fails before, it ends with the KeyError of clearing the
\* missing description, at which point the carrying item has been written
\* with its new description and nothing else has changed; no page delete,
\* page move or merge primitive call is issued in the run, before or after.
C28_MissingDescriptionFails ==
    \A c \in Publications :
        LET carrier == Carrier(c)
            other == IF carrier = args[c][1] THEN args[c][2] ELSE args[c][1]
            S == store[world[c]]
        IN  (carrier # <<>> /\ "en" \notin DOMAIN DescriptionAtStart(c, other)) =>
                /\ CallsOf(c, {"get_page", "delete_page", "move_page", "merge_items"}) = <<>>
                /\ pc[c] # "done"
                /\ IsPrefix(Writes(c), <<<<"write", <<carrier>>>>>>)
                /\ frame[c].exc = "KeyError" =>
                      /\ pc[c] = "failed"
                      /\ Writes(c) = <<<<"write", <<carrier>>>>>>
                      /\ log[c][Len(log[c])].call = "write"
                /\ (Ended(c) /\ NothingFailed(c)) =>
                      /\ frame[c].exc = "KeyError"
                      /\ S.descriptions[carrier] =
                            Lang(Description(CatalogValueAtStart(c, carrier)))
                      /\ S = [initial[world[c]] EXCEPT
                                !.descriptions[carrier] = S.descriptions[carrier]]

\* the target carries the claim and the source has no description
C28_Witness ==
    \E c \in Publications :
        /\ pc[c] = "failed"
        /\ frame[c].exc = "KeyError"
        /\ faults = 0
        /\ Carrier(c) = args[c][2]
        /\ DescriptionAtStart(c, args[c][1]) = NoLang
        /\ DescriptionAtStart(c, args[c][2]) = NoLang
        /\ store[world[c]].descriptions[args[c][2]] =
              Lang(Description(CatalogValueAtStart(c, args[c][2])))
        /\ BeforePages(c)

====
